---- MODULE Spec2Model ----
(***************************************************************************)
(* Persistence, monitoring and retrieval layer of the AsterMind-ELM MCP    *)
(* server: the SurrealDBClient (connection guard, model registry, dataset  *)
(* registry, prediction ledger, metrics engine) over the store whose       *)
(* schema the initDatabase script provisions.                              *)
(***************************************************************************)
EXTENDS Integers, Sequences, FiniteSets, TLC

(* ------------------------------ bounds -------------------------------- *)
\* last millisecond of the wall clock
MaxClock == 1
\* most rows the store holds
MaxRows == 2
\* number of concurrent callers of the client
NumCallers == 2

(* --------------------------- value domains ----------------------------- *)
\* JavaScript undefined / SurrealDB NONE, for optional strings
NONE == "<undefined>"

ModelIds == {"m1", "m2"}
\* version is a free-form string; "" is a string the type admits
Versions == {"", "v1"}
Callers == 1..NumCallers

\* weights buffers (bytes), chosen to cover the three base64 group shapes
Payloads ==
  { [config |-> "cfgA", categories |-> <<"neg", "pos">>, weights |-> <<255>>],
    [config |-> "cfgB", categories |-> <<"pos", "neg">>, weights |-> <<0, 16, 131>>] }

\* JavaScript values an examples[] field can hold at run time
JsString(str) == [t |-> "string", v |-> str]
JsNumber(digits) == [t |-> "number", v |-> digits]
JsUndefined == [t |-> "undefined", v |-> ""]

DatasetIds == {"d1", "d2"}
ExampleLists ==
  { <<[text |-> JsString("a"), label |-> JsString("x")],
      [text |-> JsString("b"), label |-> JsString("y")]>>,
    <<[text |-> JsString("b"), label |-> JsString("y")],
      [text |-> JsString("a"), label |-> JsString("x")]>>,
    <<[text |-> JsNumber("5"), label |-> JsUndefined]>> }

Collections == {"docs", "faq"}
\* items of one storeEmbeddings call
ItemBatches ==
  { <<[item_id |-> "i1", text |-> "one", embedding |-> <<1, 0>>]>>,
    <<[item_id |-> "i1", text |-> "uno", embedding |-> <<0, 1>>],
      [item_id |-> "i2", text |-> "two", embedding |-> <<1, 1>>]>> }

\* batches that give a collection equal similarities, a repeated item_id and
\* a zero vector
SearchBatches ==
  { <<[item_id |-> "i1", text |-> "one", embedding |-> <<1, 0>>]>>,
    <<[item_id |-> "i2", text |-> "two", embedding |-> <<2, 0>>]>>,
    <<[item_id |-> "i3", text |-> "three", embedding |-> <<9, 1>>]>>,
    <<[item_id |-> "i4", text |-> "four", embedding |-> <<0, 1>>],
      [item_id |-> "i4", text |-> "zero", embedding |-> <<0, 0>>]>> }
\* query_embedding
Queries == {<<1, 0>>, <<0, 0>>}
\* largest top_k asked for
MaxTopK == 2
TopKs == 1..MaxTopK

Labels == {"neg", "pos"}
\* ground_truth?: string, undefined when the caller passes none
GroundTruths == {NONE, "", "pos"}
\* confidence, in thousandths
Confidences == {600}
Latencies == {12}

\* time ranges { start, end } of the clock, start <= end
Windows == {w \in (0..MaxClock) \X (0..MaxClock) : w[1] <= w[2]}
\* timeRange?: undefined when the caller passes none
NoRange == <<>>

VARIABLES
  connected,   \* SurrealDBClient.connected
  signins,     \* db.signin calls since the last db.close, by connect() calls that did not throw
  pc,          \* per caller: the await its connect()/disconnect() call is parked at
  schemafull,  \* whether initDatabase has defined the SCHEMAFULL tables and indexes
  now,         \* wall clock (ms) read by new Date()
  models,      \* table models, in insertion order
  datasets,    \* table datasets
  predictions, \* table predictions (the ledger)
  embeddings,  \* table embeddings
  last,        \* the call that completed last, with what it returned
  registry,    \* modelManager.models: per model id <<entry>>, or <<>> when it has none
  ENABLE_PERSISTENCE, \* process.env.ENABLE_PERSISTENCE === 'true', read once at start
  LOG_PREDICTIONS,    \* process.env.LOG_PREDICTIONS === 'true', read once at start
  nansFirst    \* whether the store's platform sorts NaN before the numbers in ORDER BY ... DESC

vars == <<connected, signins, pc, schemafull, now, models, datasets, predictions,
          embeddings, last, registry, ENABLE_PERSISTENCE, LOG_PREDICTIONS, nansFirst>>

\* the state of the MCP server process around the client
server == <<registry, ENABLE_PERSISTENCE, LOG_PREDICTIONS, nansFirst>>

\* what is settled before the first call: the two flags the server reads from
\* its environment at start, and the platform the store runs on
flags == <<ENABLE_PERSISTENCE, LOG_PREDICTIONS, nansFirst>>

tables == <<models, datasets, predictions, embeddings>>

\* rows the store holds, all tables together
StoreRows == Len(models) + Len(datasets) + Len(predictions) + Len(embeddings)

(* --------------------------- pure functions --------------------------- *)

\* Date.prototype.toISOString: a fixed-width, zero-padded rendering, so that
\* comparing the strings character by character compares the instants
toISOString(t) == [type |-> "string", text |-> <<t \div 10, t % 10>>]

\* string comparison as the store's ORDER BY / >= / <= do it on strings
RECURSIVE StrLeq(_, _)
StrLeq(a, b) ==
  IF a = <<>> THEN TRUE
  ELSE IF b = <<>> THEN FALSE
  ELSE IF Head(a) < Head(b) THEN TRUE
  ELSE IF Head(a) > Head(b) THEN FALSE
  ELSE StrLeq(Tail(a), Tail(b))

TimeLeq(x, y) == StrLeq(x.text, y.text)

\* the base64 pad character '=' (alphabet indices are 0..63)
PAD == 64

\* Buffer.prototype.toString('base64'): bytes -> base64 characters
RECURSIVE toBase64(_)
toBase64(bytes) ==
  IF bytes = <<>> THEN <<>>
  ELSE IF Len(bytes) = 1 THEN
    LET n == bytes[1] * 65536
    IN  <<n \div 262144, (n \div 4096) % 64, PAD, PAD>>
  ELSE IF Len(bytes) = 2 THEN
    LET n == bytes[1] * 65536 + bytes[2] * 256
    IN  <<n \div 262144, (n \div 4096) % 64, (n \div 64) % 64, PAD>>
  ELSE
    LET n == bytes[1] * 65536 + bytes[2] * 256 + bytes[3]
    IN  <<n \div 262144, (n \div 4096) % 64, (n \div 64) % 64, n % 64>>
        \o toBase64(SubSeq(bytes, 4, Len(bytes)))

\* Buffer.from(text, 'base64'): base64 characters -> bytes
RECURSIVE fromBase64(_)
fromBase64(text) ==
  IF Len(text) < 2 \/ text[1] = PAD \/ text[2] = PAD THEN <<>>
  ELSE IF Len(text) = 2 \/ text[3] = PAD THEN
    LET n == text[1] * 262144 + text[2] * 4096
    IN  <<n \div 65536>>
  ELSE IF Len(text) = 3 \/ text[4] = PAD THEN
    LET n == text[1] * 262144 + text[2] * 4096 + text[3] * 64
    IN  <<n \div 65536, (n \div 256) % 256>>
  ELSE
    LET n == text[1] * 262144 + text[2] * 4096 + text[3] * 64 + text[4]
    IN  <<n \div 65536, (n \div 256) % 256, n % 256>>
        \o fromBase64(SubSeq(text, 5, Len(text)))

\* the rows of a table a WHERE clause keeps, as a set of row positions
Rows(table) == DOMAIN table

(* ------------------------------ the store ----------------------------- *)

\* initDatabase declares created_at / timestamp TYPE datetime: a SCHEMAFULL table
\* refuses a record whose field holds a plain string
DatetimeRejected(value) == schemafull /\ value.type # "datetime"

\* DEFINE INDEX model_version_idx ON models FIELDS model_id, version UNIQUE
ModelVersionIdxViolated(rec) ==
  schemafull /\ \E i \in Rows(models) :
                  models[i].model_id = rec.model_id /\ models[i].version = rec.version

\* db.create('models', rec) throws when the store refuses the record
ModelsCreateRefused(rec) == DatetimeRejected(rec.created_at) \/ ModelVersionIdxViolated(rec)

\* a write that replaces the table's rows by the new record
OverwriteRows(table, rec) == <<rec>>

\* db.create(table, rec) of a record the store accepts: one more row
InsertRow(table, rec) == Append(table, rec)

\* db.create gives the record a random id (`result[0].id`) and a scan of the
\* table meets the records by id: the places the new record's id can take among
\* the ids of the records already in the table, counted in records before it
ScanPlaces(table) == 0..Len(table)

\* db.insert(table, records): the places the ids of n new records can take
BatchPlaces(table, n) ==
  {ids \in [1..n -> 0..(Len(table) + n - 1)] : \A k \in 1..n : ids[k] <= Len(table) + k - 1}

\* the record as the store keeps it, with its id
Placed(rec, id) == [id |-> id] @@ rec

RECURSIVE ScanOrder(_)
\* the rows in the order a scan of the table meets them
ScanOrder(table) ==
  IF table = <<>> THEN <<>>
  ELSE LET n == Len(table)
           rest == ScanOrder(SubSeq(table, 1, n - 1))
           at == IF table[n].id < Len(rest) THEN table[n].id ELSE Len(rest)
       IN  SubSeq(rest, 1, at) \o <<n>> \o SubSeq(rest, at + 1, Len(rest))

\* per row, how many rows a scan of the table meets before it
ScanRank(table) ==
  LET order == ScanOrder(table)
  IN  [i \in DOMAIN table |-> CHOOSE k \in DOMAIN order : order[k] = i]

\* LIMIT 1 that gives any of the rows, call by call
AnyScanned(table, rows) == rows

\* LIMIT 1 over rows the query leaves in scan order
FirstScanned(table, rows) ==
  LET rank == ScanRank(table)
  IN  {i \in rows : \A j \in rows : rank[i] <= rank[j]}

\* a query that deletes the ledger's rows
purge == predictions' = <<>> /\ UNCHANGED <<models, datasets, embeddings>>

\* db.query of a SELECT statement: no table changes
select == UNCHANGED tables

(* --------------------------- the connection --------------------------- *)

\* where a connect() can throw: nowhere, or at one of its three awaits
ConnectFailures == {"none", "connect", "signin", "use"}

\* the outcomes `await this.connect()` can have in the current state
ConnectOutcomes == IF connected THEN {"none"} ELSE ConnectFailures

\* connect() without its `if (this.connected) return` line
connectUnguarded(fail) ==
  /\ signins' = IF fail = "none" THEN signins + 1 ELSE signins
  /\ connected' = (fail = "none")

\* a connect() that sets this.connected before its awaits
connectFlagFirst(fail) ==
  IF connected
    THEN UNCHANGED <<connected, signins>>
    ELSE /\ signins' = IF fail = "none" THEN signins + 1 ELSE signins
         /\ connected' = TRUE

\* await this.connect() run to completion with no other call interleaved
connect(fail) ==
  IF connected
    THEN UNCHANGED <<connected, signins>>
    ELSE /\ signins' = IF fail = "none" THEN signins + 1 ELSE signins
         /\ connected' = (fail = "none")

\* whether that connect() threw, so that the handler issued no query
ConnectThrew(fail) == ~connected /\ fail # "none"

Result(op, arg, status, val) == [op |-> op, arg |-> arg, status |-> status, val |-> val]

(* ------------------------------- Init --------------------------------- *)

Init ==
  /\ connected = FALSE
  /\ signins = 0
  /\ pc = [c \in Callers |-> "idle"]
  /\ schemafull = FALSE
  /\ now = 0
  /\ models = <<>>
  /\ datasets = <<>>
  /\ predictions = <<>>
  /\ embeddings = <<>>
  /\ last = Result("none", [model_id |-> NONE], "ok", <<>>)
  /\ registry = [id \in ModelIds |-> <<>>]
  \* a SurrealDBClient is constructed only when the flag is set
  /\ ENABLE_PERSISTENCE = TRUE
  /\ LOG_PREDICTIONS = FALSE
  \* read only where a similarity is NaN, which takes a zero vector: the
  \* specifications that store one start from InitEmbeddings
  /\ nansFirst = FALSE

(* ---------------------------- environment ----------------------------- *)

\* the wall clock advances between calls
Tick ==
  /\ now < MaxClock
  /\ now' = now + 1
  /\ UNCHANGED <<connected, signins, pc, schemafull, server, tables, last>>

\* the provisioning script: DEFINE TABLE ... SCHEMAFULL, fields and indexes,
\* IF NOT EXISTS; it holds its own connection and touches no record
initDatabase ==
  /\ ~schemafull
  /\ schemafull' = TRUE
  /\ UNCHANGED <<connected, signins, pc, server, now, tables, last>>

(* ------------------ connect / disconnect, await by await -------------- *)

\* the awaits of connect() at which a caller is parked
Connecting == {"db.connect", "db.signin", "db.use"}

\* connect(): `if (this.connected) return` returns, or db.connect(url) is issued
callConnect(c) ==
  /\ pc[c] = "idle"
  /\ IF connected
       THEN /\ last' = Result("connect", [caller |-> c], "ok", <<>>)
            /\ UNCHANGED pc
       ELSE /\ pc' = [pc EXCEPT ![c] = "db.connect"]
            /\ UNCHANGED last
  /\ UNCHANGED <<connected, signins, schemafull, server, now, tables>>

\* db.connect resolved (db.signin is issued) or rejected (connect() throws)
connectDone(c) ==
  /\ pc[c] = "db.connect"
  /\ \/ /\ signins' = signins + 1
        /\ pc' = [pc EXCEPT ![c] = "db.signin"]
        /\ UNCHANGED last
     \/ /\ pc' = [pc EXCEPT ![c] = "idle"]
        /\ last' = Result("connect", [caller |-> c], "error", <<>>)
        /\ UNCHANGED signins
  /\ UNCHANGED <<connected, schemafull, server, now, tables>>

\* db.signin resolved (db.use is issued) or rejected
signinDone(c) ==
  /\ pc[c] = "db.signin"
  /\ \/ /\ pc' = [pc EXCEPT ![c] = "db.use"]
        /\ UNCHANGED <<signins, last>>
     \/ /\ pc' = [pc EXCEPT ![c] = "idle"]
        /\ signins' = signins - 1
        /\ last' = Result("connect", [caller |-> c], "error", <<>>)
  /\ UNCHANGED <<connected, schemafull, server, now, tables>>

\* db.use resolved (this.connected = true) or rejected
useDone(c) ==
  /\ pc[c] = "db.use"
  /\ \/ /\ connected' = TRUE
        /\ pc' = [pc EXCEPT ![c] = "idle"]
        /\ last' = Result("connect", [caller |-> c], "ok", <<>>)
        /\ UNCHANGED signins
     \/ /\ pc' = [pc EXCEPT ![c] = "idle"]
        /\ signins' = signins - 1
        /\ last' = Result("connect", [caller |-> c], "error", <<>>)
        /\ UNCHANGED connected
  /\ UNCHANGED <<schemafull, server, now, tables>>

\* disconnect(): `if (this.connected)` fails and it returns, or db.close() is issued
callDisconnect(c) ==
  /\ pc[c] = "idle"
  /\ IF connected
       THEN /\ pc' = [pc EXCEPT ![c] = "db.close"]
            /\ UNCHANGED last
       ELSE /\ last' = Result("disconnect", [caller |-> c], "ok", <<>>)
            /\ UNCHANGED pc
  /\ UNCHANGED <<connected, signins, schemafull, server, now, tables>>

\* db.close resolved: this.connected = false
closeDone(c) ==
  /\ pc[c] = "db.close"
  /\ connected' = FALSE
  /\ signins' = 0
  /\ pc' = [pc EXCEPT ![c] = "idle"]
  /\ last' = Result("disconnect", [caller |-> c], "ok", <<>>)
  /\ UNCHANGED <<schemafull, server, now, tables>>

NextConn ==
  \E c \in Callers :
    \/ callConnect(c) \/ connectDone(c) \/ signinDone(c) \/ useDone(c)
    \/ callDisconnect(c) \/ closeDone(c)

SpecConn == Init /\ [][NextConn]_vars

\* the same calls under the scheduling the event loop gives: a call that can run
\* to its first await does so; between a request and the store's answer the code
\* has no step of its own (no timer is set beside an await), and nothing
\* obliges the store to answer
SpecConnFair ==
  /\ SpecConn
  /\ \A c \in Callers : WF_vars(callConnect(c)) /\ WF_vars(callDisconnect(c))

\* disconnect() run to completion with no other call interleaved
disconnect ==
  /\ \A c \in Callers : pc[c] = "idle"
  /\ IF connected
       THEN connected' = FALSE /\ signins' = 0
       ELSE UNCHANGED <<connected, signins>>
  /\ last' = Result("disconnect", [model_id |-> NONE], "ok", <<>>)
  /\ UNCHANGED <<pc, schemafull, server, now, tables>>

(* --------------------------- model registry --------------------------- *)

\* the record storeModel hands to db.create('models', ...)
StoredModel(model_id, version, p) ==
  [model_id |-> model_id, version |-> version, config |-> p.config,
   weights |-> toBase64(p.weights), categories |-> p.categories,
   created_at |-> toISOString(now), status |-> "active"]

\* whether storeModel throws: in connect(), or when the store refuses the record
StoreModelThrows(fail, rec) == ConnectThrew(fail) \/ ModelsCreateRefused(rec)

\* what a storeModel call does to the connection and the table
storeModelWrites(fail, rec) ==
  /\ connect(fail)
  /\ IF StoreModelThrows(fail, rec)
       THEN UNCHANGED models
       ELSE /\ StoreRows < MaxRows
            /\ \E id \in ScanPlaces(models) : models' = InsertRow(models, Placed(rec, id))

storeModelOf(ids, versions, payloads) ==
  \E fail \in ConnectOutcomes, model_id \in ids, version \in versions, p \in payloads :
    LET rec == StoredModel(model_id, version, p)
        arg == [model_id |-> model_id, version |-> version, config |-> p.config,
                weights |-> p.weights, categories |-> p.categories]
    IN  /\ \A c \in Callers : pc[c] = "idle"
        /\ storeModelWrites(fail, rec)
        /\ last' = Result("storeModel", arg,
                          IF StoreModelThrows(fail, rec) THEN "error" ELSE "ok", <<>>)
        /\ UNCHANGED <<pc, schemafull, server, now, datasets, predictions, embeddings>>

storeModel == storeModelOf(ModelIds, Versions, Payloads)

\* WHERE model_id = $model_id AND version = $version AND status = 'active'
ActiveVersionRows(model_id, version) ==
  {i \in Rows(models) : /\ models[i].model_id = model_id
                        /\ models[i].version = version
                        /\ models[i].status = "active"}

\* WHERE model_id = $model_id AND status = 'active'
ActiveRows(model_id) ==
  {i \in Rows(models) : models[i].model_id = model_id /\ models[i].status = "active"}

\* the rows in no particular order, what the query gives without its ORDER BY
AnyOrder(rows) == rows

\* ORDER BY created_at DESC LIMIT 1: the rows that can come first
NewestFirst(rows) ==
  {i \in rows : \A j \in rows : TimeLeq(models[j].created_at, models[i].created_at)}

\* `if (version)`: undefined and the empty string both take the else branch
Truthy(s) == s # NONE /\ s # ""

\* the rows LIMIT 1 chooses among: without ORDER BY every row the WHERE clause
\* keeps, with it the newest; the first of them in scan order is returned
LoadModelRows(model_id, version) ==
  IF Truthy(version) THEN ActiveVersionRows(model_id, version)
                     ELSE NewestFirst(ActiveRows(model_id))

\* what loadModel returns for a row
LoadedModel(m) ==
  [config |-> m.config, weights |-> fromBase64(m.weights),
   categories |-> m.categories, version |-> m.version]

loadModelOf(ids, versions) ==
  \E fail \in ConnectOutcomes, model_id \in ids, version \in versions :
    LET arg == [model_id |-> model_id, version |-> version]
        rows == LoadModelRows(model_id, version)
    IN  /\ \A c \in Callers : pc[c] = "idle"
        /\ connect(fail)
        /\ IF ConnectThrew(fail)
             THEN last' = Result("loadModel", arg, "error", <<>>)
             ELSE IF rows = {}
               THEN last' = Result("loadModel", arg, "null", <<>>)
               ELSE \E i \in FirstScanned(models, rows) :
                      last' = Result("loadModel", arg, "ok", <<LoadedModel(models[i])>>)
        /\ select
        /\ UNCHANGED <<pc, schemafull, server, now>>

loadModel == loadModelOf(ModelIds, Versions \cup {NONE})

\* ORDER BY created_at DESC: the row sequence the query gives; rows of equal
\* created_at stay in scan order
NewestFirstOrders(rows) ==
  LET n == Cardinality(rows)
      rank == ScanRank(models)
  IN  {order \in [1..n -> rows] :
         \A k, l \in 1..n : k < l =>
           /\ order[k] # order[l]
           /\ TimeLeq(models[order[l]].created_at, models[order[k]].created_at)
           /\ models[order[l]].created_at = models[order[k]].created_at
                => rank[order[k]] < rank[order[l]]}

\* SELECT version, created_at, categories, metadata, status, description
VersionSummary(m) ==
  [version |-> m.version, created_at |-> m.created_at, categories |-> m.categories,
   status |-> m.status]

listModelVersionsOf(ids) ==
  \E fail \in ConnectOutcomes, model_id \in ids :
    LET arg == [model_id |-> model_id]
    IN  /\ \A c \in Callers : pc[c] = "idle"
        /\ connect(fail)
        /\ IF ConnectThrew(fail)
             THEN last' = Result("listModelVersions", arg, "error", <<>>)
             ELSE \E order \in NewestFirstOrders(ActiveRows(model_id)) :
                    last' = Result("listModelVersions", arg, "ok",
                              [k \in DOMAIN order |-> VersionSummary(models[order[k]])])
        /\ select
        /\ UNCHANGED <<pc, schemafull, server, now>>

listModelVersions == listModelVersionsOf(ModelIds)

NextModels == storeModel \/ loadModel \/ Tick \/ initDatabase

SpecModels == Init /\ [][NextModels]_vars

\* the loads that name no version, over records that differ in model id,
\* version and instant
NextLatest ==
  \/ storeModelOf(ModelIds, Versions, {CHOOSE p \in Payloads : Len(p.weights) = 1})
  \/ loadModelOf(ModelIds, {NONE})
  \/ Tick
  \/ initDatabase

SpecLatest == Init /\ [][NextLatest]_vars

\* the versions of the registry and their listing
NextVersions ==
  \/ storeModelOf(ModelIds, Versions, {CHOOSE p \in Payloads : Len(p.weights) = 1})
  \/ listModelVersions
  \/ Tick
  \/ initDatabase

SpecVersions == Init /\ [][NextVersions]_vars

(* ------------------------ the MCP tool handlers ----------------------- *)

\* config?.maxLen of a train_classifier call: <<>> when absent, or a length
MaxLens == {<<>>, <<50>>}
\* the fallback of `config?.maxLen || 30`
DefaultMaxLen == 30
\* elm.model.W after training, one byte standing for the arrays: training
\* draws its hidden weights at random
TrainedWeights == {7, 9}
\* Array.from(new Set(training_data.map(d => d.label)))
TrainedCategories == <<"neg", "pos">>
\* version?: string of train_classifier and load_model_persistent
ToolVersions == {NONE, "v1"}

\* the encoder modes 'char' | 'token', by the byte that stands for them
Modes == <<"char", "token">>
ModeByte(mode) == CHOOSE b \in DOMAIN Modes : Modes[b] = mode

\* Buffer.from(JSON.stringify(obj)): a property holding undefined is left out
stringify(obj) ==
  <<obj.W>> \o (IF obj.encoderConfig = <<>> THEN <<>>
                ELSE <<obj.encoderConfig[1].maxLen,
                       ModeByte(obj.encoderConfig[1].mode)>>)

\* a parse that reads the encoder and leaves the trained weights at zero
parseEncoderOnly(bytes) ==
  [W |-> 0,
   encoderConfig |-> IF Len(bytes) < 3 THEN <<>>
                     ELSE <<[maxLen |-> bytes[2], mode |-> Modes[bytes[3]]]>>]

\* JSON.parse(buffer.toString()): a property left out reads as undefined
parse(bytes) ==
  [W |-> bytes[1],
   encoderConfig |-> IF Len(bytes) < 3 THEN <<>>
                     ELSE <<[maxLen |-> bytes[2], mode |-> Modes[bytes[3]]]>>]

\* config?.maxLen || 30
MaxLenOr30(maxLen) ==
  IF maxLen = <<>> THEN DefaultMaxLen
  ELSE IF maxLen[1] = 0 THEN DefaultMaxLen ELSE maxLen[1]

\* the entry modelManager.createClassifier sets for a classifier
ModelEntry(categories, maxLen, encoder, W) ==
  [categories |-> categories, maxLen |-> maxLen, encoder |-> encoder, W |-> W]

\* version || new Date().toISOString()
VersionOrNow(version) == IF Truthy(version) THEN version ELSE "T" \o ToString(now)

\* the messages of the errors the handlers end in
NotEnabled == "Persistence is not enabled. Set ENABLE_PERSISTENCE=true"
AlreadyExists == "Model already exists"
ModelNotFound == "Model not found"
NotInDatabase == "not found in database"
\* whatever message the error thrown by the store's client carries
StoreError == "store error"

\* a registry that reports no id as taken
hasNoModel(id) == FALSE

\* modelManager.hasModel: whether the id is in the registry
hasModel(id) == registry[id] # <<>>

\* the catch block of the request handler: the response of a tool whose
\* handler threw an error with that message
ToolError(name, arg, errorMessage) ==
  Result(name, arg, "error", <<[error |-> errorMessage, tool |-> name]>>)

train_classifier(ids, versions, maxLens, persists) ==
  \E fail \in ConnectOutcomes, model_id \in ids, version \in versions,
     maxLen \in maxLens, persist \in persists, W \in TrainedWeights :
    LET arg == [model_id |-> model_id, version |-> version, maxLen |-> maxLen,
                persist |-> persist]
        encoder == [maxLen |-> MaxLenOr30(maxLen), mode |-> "char"]
        modelVersion == VersionOrNow(version)
        weights == stringify([W |-> W, encoderConfig |-> <<encoder>>])
        rec == StoredModel(model_id, modelVersion,
                 [config |-> [maxLen |-> <<MaxLenOr30(maxLen)>>], weights |-> weights,
                  categories |-> TrainedCategories])
    IN  /\ \A c \in Callers : pc[c] = "idle"
        /\ IF hasModel(model_id)
             THEN \* createClassifier throws: Model already exists
                  /\ last' = ToolError("train_classifier", arg, AlreadyExists)
                  /\ UNCHANGED <<connected, signins, models, registry>>
             ELSE /\ registry' = [registry EXCEPT ![model_id] =
                        <<ModelEntry(TrainedCategories, MaxLenOr30(maxLen), encoder, W)>>]
                  /\ IF persist /\ ENABLE_PERSISTENCE
                       THEN /\ storeModelWrites(fail, rec)
                            /\ last' = IF StoreModelThrows(fail, rec)
                                 THEN ToolError("train_classifier", arg, StoreError)
                                 ELSE Result("train_classifier", arg, "ok",
                                        <<[success |-> TRUE, persisted |-> TRUE,
                                           version |-> modelVersion, warning |-> FALSE]>>)
                       ELSE /\ last' = Result("train_classifier", arg, "ok",
                                          <<[success |-> TRUE, persisted |-> FALSE,
                                             version |-> NONE, warning |-> persist]>>)
                            /\ UNCHANGED <<connected, signins, models>>
        /\ UNCHANGED <<pc, schemafull, now, flags, datasets, predictions,
                       embeddings>>

store_model_persistent(ids, versions) ==
  \E fail \in ConnectOutcomes, model_id \in ids, version \in versions :
    LET arg == [model_id |-> model_id, version |-> version]
        elm == registry[model_id][1]
        weights == stringify([W |-> elm.W, encoderConfig |-> <<>>])
        rec == StoredModel(model_id, version,
                 [config |-> [maxLen |-> <<elm.maxLen>>], weights |-> weights,
                  categories |-> elm.categories])
    IN  /\ \A c \in Callers : pc[c] = "idle"
        /\ IF ~ENABLE_PERSISTENCE \/ registry[model_id] = <<>>
             THEN \* Persistence is not enabled, or getModel throws: not found
                  /\ last' = ToolError("store_model_persistent", arg,
                                IF ~ENABLE_PERSISTENCE THEN NotEnabled ELSE ModelNotFound)
                  /\ UNCHANGED <<connected, signins, models>>
             ELSE /\ storeModelWrites(fail, rec)
                  /\ last' = IF StoreModelThrows(fail, rec)
                       THEN ToolError("store_model_persistent", arg, StoreError)
                       ELSE Result("store_model_persistent", arg, "ok",
                                   <<[success |-> TRUE, version |-> version]>>)
        /\ UNCHANGED <<pc, schemafull, now, server, datasets, predictions, embeddings>>

\* weights.encoderConfig || { maxLen: stored.config.maxLen || 30, mode: 'char' }
EncoderConfigOf(weights, config) ==
  IF weights.encoderConfig # <<>> THEN weights.encoderConfig[1]
  ELSE [maxLen |-> MaxLenOr30(config.maxLen), mode |-> "char"]

load_model_persistent(ids, versions) ==
  \E fail \in ConnectOutcomes, model_id \in ids, version \in versions :
    LET arg == [model_id |-> model_id, version |-> version]
        rows == LoadModelRows(model_id, version)
    IN  /\ \A c \in Callers : pc[c] = "idle"
        /\ IF ~ENABLE_PERSISTENCE
             THEN /\ last' = ToolError("load_model_persistent", arg, NotEnabled)
                  /\ UNCHANGED <<connected, signins, registry>>
             ELSE /\ connect(fail)
                  /\ IF ConnectThrew(fail) \/ rows = {}
                       THEN \* loadModel throws, or returns null: not found in database
                            /\ last' = ToolError("load_model_persistent", arg,
                                 IF ConnectThrew(fail) THEN StoreError ELSE NotInDatabase)
                            /\ UNCHANGED registry
                       ELSE \E i \in FirstScanned(models, rows) :
                         LET stored == LoadedModel(models[i])
                             weights == parse(stored.weights)
                             encoder == EncoderConfigOf(weights, stored.config)
                         IN  IF hasModel(model_id)
                               THEN \* createClassifier throws: Model already exists
                                    /\ last' = ToolError("load_model_persistent", arg,
                                                          AlreadyExists)
                                    /\ UNCHANGED registry
                               ELSE /\ registry' = [registry EXCEPT ![model_id] =
                                          <<ModelEntry(stored.categories, MaxLenOr30(stored.config.maxLen),
                                                       encoder, weights.W)>>]
                                    /\ last' = Result("load_model_persistent", arg, "ok",
                                          <<[success |-> TRUE, version |-> stored.version]>>)
        /\ select
        /\ UNCHANGED <<pc, schemafull, now, flags>>

\* modelManager.deleteModel: the entry leaves the memory, the store is not touched
delete_model(ids) ==
  \E model_id \in ids :
    /\ \A c \in Callers : pc[c] = "idle"
    /\ registry' = [registry EXCEPT ![model_id] = <<>>]
    /\ last' = Result("delete_model", [model_id |-> model_id], "ok",
                      <<[success |-> registry[model_id] # <<>>]>>)
    /\ UNCHANGED <<connected, signins, pc, schemafull, now, flags, tables>>

\* the server process after its start, with the flag as the environment set it
InitServer ==
  /\ connected = FALSE
  /\ signins = 0
  /\ pc = [c \in Callers |-> "idle"]
  /\ schemafull = FALSE
  /\ now = 0
  /\ models = <<>>
  /\ datasets = <<>>
  /\ predictions = <<>>
  /\ embeddings = <<>>
  /\ last = Result("none", [model_id |-> NONE], "ok", <<>>)
  /\ registry = [id \in ModelIds |-> <<>>]
  /\ ENABLE_PERSISTENCE \in BOOLEAN
  /\ LOG_PREDICTIONS \in BOOLEAN
  /\ nansFirst = FALSE

NextTools ==
  \/ train_classifier({"m1"}, ToolVersions, MaxLens, BOOLEAN)
  \/ store_model_persistent({"m1"}, {"v1"})
  \/ load_model_persistent({"m1"}, ToolVersions)
  \/ delete_model({"m1"})
  \/ initDatabase

SpecTools == InitServer /\ [][NextTools]_vars

(* -------------------------- dataset registry -------------------------- *)

\* how the store keeps a field: a property holding undefined is not written
Stored(value) == IF value.t = "undefined" THEN [t |-> "none", v |-> ""] ELSE value

\* how a row's field reads back: a field NONE in the store is undefined in JavaScript
Read(value) == IF value.t = "none" THEN JsUndefined ELSE value

\* the examples array as storeDataset hands it to db.create
structuredExamples(examples) == examples

StoredExamples(examples) ==
  [k \in DOMAIN examples |-> [text |-> Stored(examples[k].text),
                              label |-> Stored(examples[k].label)]]

ReadExamples(examples) ==
  [k \in DOMAIN examples |-> [text |-> Read(examples[k].text),
                              label |-> Read(examples[k].label)]]

\* DEFINE FIELD examples.*.text / examples.*.label ON datasets TYPE string
ExamplesRejected(examples) ==
  schemafull /\ \E k \in DOMAIN examples :
                  examples[k].text.t # "string" \/ examples[k].label.t # "string"

\* DEFINE INDEX dataset_id_idx ON datasets FIELDS dataset_id UNIQUE
DatasetIdIdxViolated(rec) ==
  schemafull /\ \E i \in Rows(datasets) : datasets[i].dataset_id = rec.dataset_id

DatasetsCreateRefused(rec) ==
  \/ DatetimeRejected(rec.created_at)
  \/ ExamplesRejected(rec.examples)
  \/ DatasetIdIdxViolated(rec)

storeDatasetOf(ids, lists) ==
  \E fail \in ConnectOutcomes, dataset_id \in ids, examples \in lists :
    LET rec == [dataset_id |-> dataset_id,
                examples |-> StoredExamples(structuredExamples(examples)),
                size |-> Len(examples),
                created_at |-> toISOString(now)]
        arg == [dataset_id |-> dataset_id, examples |-> examples]
    IN  /\ \A c \in Callers : pc[c] = "idle"
        /\ connect(fail)
        /\ IF ConnectThrew(fail)
             THEN /\ last' = Result("storeDataset", arg, "error", <<>>)
                  /\ UNCHANGED datasets
             ELSE IF DatasetsCreateRefused(rec)
               THEN /\ last' = Result("storeDataset", arg, "error", <<>>)
                    /\ UNCHANGED datasets
               ELSE /\ StoreRows < MaxRows
                    /\ \E id \in ScanPlaces(datasets) :
                         datasets' = InsertRow(datasets, Placed(rec, id))
                    /\ last' = Result("storeDataset", arg, "ok", <<>>)
        /\ UNCHANGED <<pc, schemafull, server, now, models, predictions, embeddings>>

storeDataset == storeDatasetOf(DatasetIds, ExampleLists)

\* WHERE dataset_id = $dataset_id LIMIT 1: the rows the WHERE clause keeps, of
\* which the first in scan order is returned
LoadDatasetRows(dataset_id) ==
  {i \in Rows(datasets) : datasets[i].dataset_id = dataset_id}

LoadedDataset(d) == [examples |-> ReadExamples(d.examples), size |-> d.size]

loadDatasetOf(ids) ==
  \E fail \in ConnectOutcomes, dataset_id \in ids :
    LET arg == [dataset_id |-> dataset_id]
        rows == LoadDatasetRows(dataset_id)
    IN  /\ \A c \in Callers : pc[c] = "idle"
        /\ connect(fail)
        /\ IF ConnectThrew(fail)
             THEN last' = Result("loadDataset", arg, "error", <<>>)
             ELSE IF rows = {}
               THEN last' = Result("loadDataset", arg, "null", <<>>)
               ELSE \E i \in FirstScanned(datasets, rows) :
                      last' = Result("loadDataset", arg, "ok", <<LoadedDataset(datasets[i])>>)
        /\ select
        /\ UNCHANGED <<pc, schemafull, server, now>>

loadDataset == loadDatasetOf(DatasetIds)

NextDatasets == storeDataset \/ loadDataset \/ Tick \/ initDatabase

SpecDatasets == Init /\ [][NextDatasets]_vars

(* -------------------------- prediction ledger ------------------------- *)

\* `ground_truth ? predicted_label === ground_truth : undefined`, a test of
\* truthiness in place of the test against undefined
correctIfTruthy(predicted_label, ground_truth) ==
  IF Truthy(ground_truth)
    THEN (IF predicted_label = ground_truth THEN "true" ELSE "false")
    ELSE NONE

\* const correct = ground_truth !== undefined ? predicted_label === ground_truth : undefined
correctOf(predicted_label, ground_truth) ==
  IF ground_truth # NONE
    THEN (IF predicted_label = ground_truth THEN "true" ELSE "false")
    ELSE NONE

PredictionsCreateRefused(rec) == DatetimeRejected(rec.timestamp)

\* the record logPrediction hands to db.create('predictions', ...)
PredictionLog(model_id, predicted_label, ground_truth, confidence, latency_ms) ==
  [model_id |-> model_id, version |-> "in-memory", input_text |-> "text",
   predicted_label |-> predicted_label, confidence |-> confidence,
   ground_truth |-> ground_truth,
   correct |-> correctOf(predicted_label, ground_truth),
   latency_ms |-> latency_ms, timestamp |-> toISOString(now)]

\* whether logPrediction throws: in connect(), or when the store refuses the record
LogPredictionThrows(fail, rec) == ConnectThrew(fail) \/ PredictionsCreateRefused(rec)

\* what a logPrediction call does to the connection and the table
logPredictionWrites(fail, rec) ==
  /\ connect(fail)
  /\ IF LogPredictionThrows(fail, rec)
       THEN UNCHANGED predictions
       ELSE /\ StoreRows < MaxRows
            /\ predictions' = InsertRow(predictions, rec)

logPredictionOf(ids, labels, truths) ==
  \E fail \in ConnectOutcomes, model_id \in ids, predicted_label \in labels,
     ground_truth \in truths, confidence \in Confidences, latency_ms \in Latencies :
    LET rec == PredictionLog(model_id, predicted_label, ground_truth, confidence,
                             latency_ms)
        arg == [model_id |-> model_id, predicted_label |-> predicted_label,
                ground_truth |-> ground_truth, confidence |-> confidence]
    IN  /\ \A c \in Callers : pc[c] = "idle"
        /\ logPredictionWrites(fail, rec)
        /\ last' = Result("logPrediction", arg,
                          IF LogPredictionThrows(fail, rec) THEN "error" ELSE "ok", <<>>)
        /\ UNCHANGED <<pc, schemafull, server, now, models, datasets, embeddings>>

logPrediction == logPredictionOf(ModelIds, Labels, GroundTruths)

(* ---------------------------- metrics engine -------------------------- *)

\* a window that leaves its end out: timestamp >= $start AND timestamp < $end
InRangeEndExcluded(ts, range) ==
  range = NoRange \/ ( /\ TimeLeq(toISOString(range[1]), ts)
                       /\ ~TimeLeq(toISOString(range[2]), ts) )

\* WHERE model_id = $model_id [AND timestamp >= $start AND timestamp <= $end]
InRange(ts, range) ==
  range = NoRange \/ ( /\ TimeLeq(toISOString(range[1]), ts)
                       /\ TimeLeq(ts, toISOString(range[2])) )

\* the query without its `model_id = $model_id` condition
RowsOfAnyModel(model_id, range) ==
  {i \in Rows(predictions) : InRange(predictions[i].timestamp, range)}

MatchingRows(model_id, range) ==
  {i \in Rows(predictions) : /\ predictions[i].model_id = model_id
                             /\ InRange(predictions[i].timestamp, range)}

\* statsQuery has no GROUP clause: math::mean(confidence) is applied to each
\* matching row's number, which the store refuses ("expected array")
StatsQueryRefused(rows) == rows # {}

\* with no matching row statsResult[0][0] is undefined and `stats.total` throws
StatsRowMissing(rows) == rows = {}

\* the messages of the two errors getModelMetrics ends in: the store's, and the
\* TypeError of `stats.total`
MeanOfScalar == "Incorrect arguments for function math::mean(). Expected array but found scalar value"
StatsUndefined == "Cannot read properties of undefined (reading 'total')"

getModelMetricsOf(ids, ranges) ==
  \E fail \in ConnectOutcomes, model_id \in ids, range \in ranges :
    LET arg == [model_id |-> model_id, range |-> range]
        rows == MatchingRows(model_id, range)
    IN  /\ \A c \in Callers : pc[c] = "idle"
        /\ connect(fail)
        /\ IF ConnectThrew(fail)
             THEN last' = Result("getModelMetrics", arg, "error", <<>>)
           ELSE IF StatsQueryRefused(rows)
             THEN last' = Result("getModelMetrics", arg, "error", <<[error |-> MeanOfScalar]>>)
           ELSE IF StatsRowMissing(rows)
             THEN last' = Result("getModelMetrics", arg, "error", <<[error |-> StatsUndefined]>>)
           ELSE last' = Result("getModelMetrics", arg, "ok", <<>>)
        /\ select
        /\ UNCHANGED <<pc, schemafull, server, now>>

getModelMetrics == getModelMetricsOf(ModelIds, Windows \cup {NoRange})

\* the query without its `ground_truth != NONE` condition
RowsWithOrWithoutTruth(model_id, range) == MatchingRows(model_id, range)

\* WHERE model_id = $model_id AND ground_truth != NONE [AND timestamp ...]
TruthRows(model_id, range) ==
  {i \in MatchingRows(model_id, range) : predictions[i].ground_truth # NONE}

\* GROUP BY predicted_label, ground_truth with count(): the cells of the matrix,
\* matrix[ground_truth][predicted_label] = count
ConfusionCells(rows) ==
  { [truth |-> predictions[i].ground_truth, predicted |-> predictions[i].predicted_label,
     count |-> Cardinality({j \in rows :
                  /\ predictions[j].ground_truth = predictions[i].ground_truth
                  /\ predictions[j].predicted_label = predictions[i].predicted_label})]
    : i \in rows }

getConfusionMatrixOf(ids, ranges) ==
  \E fail \in ConnectOutcomes, model_id \in ids, range \in ranges :
    LET arg == [model_id |-> model_id, range |-> range]
    IN  /\ \A c \in Callers : pc[c] = "idle"
        /\ connect(fail)
        /\ IF ConnectThrew(fail)
             THEN last' = Result("getConfusionMatrix", arg, "error", <<>>)
             ELSE last' = Result("getConfusionMatrix", arg, "ok",
                                 <<[matrix |-> ConfusionCells(TruthRows(model_id, range))]>>)
        /\ select
        /\ UNCHANGED <<pc, schemafull, server, now>>

getConfusionMatrix == getConfusionMatrixOf(ModelIds, Windows \cup {NoRange})

\* GROUP BY predicted_label with count(), each count over the window's total:
\* the distribution as fractions <<count, total>>
Distribution(rows) ==
  { [label |-> predictions[i].predicted_label,
     share |-> <<Cardinality({j \in rows :
                   predictions[j].predicted_label = predictions[i].predicted_label}),
                 Cardinality(rows)>>]
    : i \in rows }

\* numbers of the drift score are kept in thousandths
Milli == 1000

\* Math.log(2), in thousandths
LN2 == 693

RECURSIVE Log2Floor(_)
\* the exponent k of the largest power of two 2^k <= n
Log2Floor(n) == IF n < 2 THEN 0 ELSE 1 + Log2Floor(n \div 2)

RECURSIVE Pow2(_)
Pow2(k) == IF k = 0 THEN 1 ELSE 2 * Pow2(k - 1)

\* Math.log(n) for an integer n >= 1, in thousandths: n = 2^k * m with
\* 1 <= m < 2, log n = k log 2 + 2 atanh((m - 1) / (m + 1)), the atanh by
\* its series z + z^3/3 + z^5/5 + z^7/7
Log(n) ==
  LET k == Log2Floor(n)
      z == ((n - Pow2(k)) * Milli) \div (n + Pow2(k))
      z3 == (z * z * z) \div (Milli * Milli)
      z5 == (z3 * z * z) \div (Milli * Milli)
      z7 == (z5 * z * z) \div (Milli * Milli)
  IN  k * LN2 + 2 * (z + z3 \div 3 + z5 \div 5 + z7 \div 7)

\* baselineDist[label] || 0.01: a smoothing constant ten times larger
ShareOrCenti(dist, label) ==
  IF \E e \in dist : e.label = label
    THEN (CHOOSE e \in dist : e.label = label).share
    ELSE <<1, 100>>

\* baselineDist[label] || 0.001: the label's share <<count, total>>, or the
\* smoothing constant when the window has no entry of the label
ShareOf(dist, label) ==
  IF \E e \in dist : e.label = label
    THEN (CHOOSE e \in dist : e.label = label).share
    ELSE <<1, 1000>>

\* p * Math.log(p / q) in thousandths, for fractions p and q: the quotient
\* p / q is p[1] q[2] / (p[2] q[1]), its logarithm the difference of the two
\* integers' logarithms, 0 when they are equal
DriftTerm(p, q) ==
  (p[1] * (Log(p[1] * q[2]) - Log(p[2] * q[1]))) \div p[2]

RECURSIVE DriftSum(_, _, _)
\* for (const label of allLabels) driftScore += p * Math.log(p / q)
DriftSum(labels, baselineDist, currentDist) ==
  IF labels = {} THEN 0
  ELSE LET label == CHOOSE l \in labels : TRUE
       IN  DriftTerm(ShareOf(baselineDist, label), ShareOf(currentDist, label))
             + DriftSum(labels \ {label}, baselineDist, currentDist)

\* new Set([...Object.keys(baselineDist), ...Object.keys(currentDist)])
allLabels(baselineDist, currentDist) ==
  {e.label : e \in baselineDist \cup currentDist}

\* the threshold 0.1 of drift_detected, in thousandths
DriftThreshold == 100

\* drift_detected: driftScore >= 0, a test that flags every window pair
DriftDetectedFrom0(driftScore) == driftScore >= 0

\* drift_detected: driftScore > 0.1
DriftDetected(driftScore) == driftScore > DriftThreshold

\* the DriftAnalysis detectDrift returns for two sets of ledger rows
DriftAnalysis(baselineRows, currentRows) ==
  LET baselineDist == Distribution(baselineRows)
      currentDist == Distribution(currentRows)
      driftScore == DriftSum(allLabels(baselineDist, currentDist),
                             baselineDist, currentDist)
  IN  [drift_detected |-> DriftDetected(driftScore),
       drift_score |-> driftScore,
       baseline_distribution |-> baselineDist,
       current_distribution |-> currentDist]

detectDriftOf(ids, baselines, currents) ==
  \E fail \in ConnectOutcomes, model_id \in ids,
     baseline_window \in baselines, current_window \in currents :
    LET arg == [model_id |-> model_id, baseline_window |-> baseline_window,
                current_window |-> current_window]
    IN  /\ \A c \in Callers : pc[c] = "idle"
        /\ connect(fail)
        /\ IF ConnectThrew(fail)
             THEN last' = Result("detectDrift", arg, "error", <<>>)
             ELSE last' = Result("detectDrift", arg, "ok",
                   <<DriftAnalysis(MatchingRows(model_id, baseline_window),
                                   MatchingRows(model_id, current_window))>>)
        /\ select
        /\ UNCHANGED <<pc, schemafull, server, now>>

detectDrift == detectDriftOf(ModelIds, Windows, Windows)

NextLedger ==
  \/ logPrediction
  \/ getModelMetricsOf({"m1"}, {NoRange})
  \/ getConfusionMatrixOf({"m1"}, {NoRange})
  \/ detectDriftOf({"m1"}, {<<0, 0>>}, {<<MaxClock, MaxClock>>})
  \/ Tick
  \/ initDatabase

SpecLedger == Init /\ [][NextLedger]_vars

\* the ledger of one model and its drift over every pair of windows
NextDrift ==
  \/ logPredictionOf({"m1"}, Labels, {NONE})
  \/ detectDriftOf({"m1"}, Windows, Windows)
  \/ Tick

SpecDrift == Init /\ [][NextDrift]_vars

\* the ledger and its confusion matrix over every time range
NextMatrix ==
  \/ logPredictionOf(ModelIds, Labels, {NONE, "pos"})
  \/ getConfusionMatrixOf({"m1"}, Windows \cup {NoRange})
  \/ Tick

SpecMatrix == Init /\ [][NextMatrix]_vars

(* --------------------------- embedding store -------------------------- *)

\* DEFINE INDEX embeddings_collection_idx ON embeddings
\*   FIELDS collection_name, item_id UNIQUE
EmbeddingsIdxViolated(records) ==
  schemafull /\ \E k \in DOMAIN records :
    \/ \E i \in Rows(embeddings) :
         /\ embeddings[i].collection_name = records[k].collection_name
         /\ embeddings[i].item_id = records[k].item_id
    \/ \E l \in DOMAIN records : l # k /\ records[l].item_id = records[k].item_id

EmbeddingsInsertRefused(records) ==
  \/ \E k \in DOMAIN records : DatetimeRejected(records[k].created_at)
  \/ EmbeddingsIdxViolated(records)

storeEmbeddingsOf(collections, batches) ==
  \E fail \in ConnectOutcomes, collection_name \in collections, items \in batches :
    LET records == [k \in DOMAIN items |->
                      [collection_name |-> collection_name, item_id |-> items[k].item_id,
                       text |-> items[k].text, embedding |-> items[k].embedding,
                       created_at |-> toISOString(now)]]
        arg == [collection_name |-> collection_name, items |-> items]
    IN  /\ \A c \in Callers : pc[c] = "idle"
        /\ connect(fail)
        /\ IF ConnectThrew(fail)
             THEN /\ last' = Result("storeEmbeddings", arg, "error", <<>>)
                  /\ UNCHANGED embeddings
             ELSE IF EmbeddingsInsertRefused(records)
               THEN /\ last' = Result("storeEmbeddings", arg, "error", <<>>)
                    /\ UNCHANGED embeddings
               ELSE /\ StoreRows + Len(records) <= MaxRows
                    /\ \E ids \in BatchPlaces(embeddings, Len(records)) :
                         embeddings' = embeddings \o
                           [k \in DOMAIN records |-> Placed(records[k], ids[k])]
                    /\ last' = Result("storeEmbeddings", arg, "ok", <<Len(records)>>)
        /\ UNCHANGED <<pc, schemafull, server, now, models, datasets, predictions>>

storeEmbeddings == storeEmbeddingsOf(Collections, ItemBatches)

RECURSIVE Dot(_, _)
\* the dot product of two vectors of one dimension
Dot(a, b) == IF a = <<>> THEN 0 ELSE Head(a) * Head(b) + Dot(Tail(a), Tail(b))

RECURSIVE GCD(_, _)
GCD(x, y) == IF y = 0 THEN x ELSE GCD(y, x % y)

Abs(x) == IF x < 0 THEN -x ELSE x

\* vector::similarity::cosine(a, b) = dot / (|a| * |b|). A number is kept as
\* the fraction num / den in lowest terms of its signed square
\* sign(dot) * dot^2 / (|a|^2 * |b|^2), which orders as the cosine does; with a
\* zero vector the quotient is 0 / 0, NaN
cosine(a, b) ==
  LET d == Dot(a, b)
      n == Dot(a, a) * Dot(b, b)
      g == GCD(d * d, n)
  IN  IF n = 0
        THEN [kind |-> "NaN", num |-> 0, den |-> 1]
        ELSE [kind |-> "number", num |-> (IF d < 0 THEN -1 ELSE 1) * ((d * d) \div g),
              den |-> n \div g]

\* ORDER BY similarity ASC, the least similar first
SortsBeforeAscending(x, y, nanFirst) ==
  IF x.kind = "NaN" /\ y.kind = "NaN" THEN FALSE
  ELSE IF x.kind = "NaN" THEN nanFirst
  ELSE IF y.kind = "NaN" THEN ~nanFirst
  ELSE x.num * y.den < y.num * x.den

\* ORDER BY similarity DESC: whether x sorts strictly before y. The store's
\* total order puts every NaN at one end, which end depending on the sign bit
\* the platform gives 0 / 0
SortsBefore(x, y, nanFirst) ==
  IF x.kind = "NaN" /\ y.kind = "NaN" THEN FALSE
  ELSE IF x.kind = "NaN" THEN nanFirst
  ELSE IF y.kind = "NaN" THEN ~nanFirst
  ELSE y.num * x.den < x.num * y.den

\* WHERE collection_name = $collection_name
CollectionRows(collection_name) ==
  {i \in Rows(embeddings) : embeddings[i].collection_name = collection_name}

Min(x, y) == IF x < y THEN x ELSE y

\* ORDER BY similarity DESC LIMIT $top_k: the row sequence the query gives;
\* rows of equal similarity stay in scan order
RankedRows(rows, query_embedding, top_k, nanFirst) ==
  LET sim(i) == cosine(embeddings[i].embedding, query_embedding)
      m == Min(top_k, Cardinality(rows))
      rank == ScanRank(embeddings)
      \* whether row i comes before row j in the sorted rows
      before(i, j) ==
        \/ SortsBefore(sim(i), sim(j), nanFirst)
        \/ /\ ~SortsBefore(sim(j), sim(i), nanFirst)
           /\ rank[i] < rank[j]
  IN  {order \in [1..m -> rows] :
         /\ \A k, l \in 1..m : k < l => before(order[k], order[l])
         /\ \A j \in rows : (\A k \in 1..m : order[k] # j) =>
               \A k \in 1..m : before(order[k], j)}

searchSimilarOf(collections, queries, topks) ==
  \E fail \in ConnectOutcomes, collection_name \in collections,
     query_embedding \in queries, top_k \in topks :
    LET arg == [collection_name |-> collection_name,
                query_embedding |-> query_embedding, top_k |-> top_k]
    IN  /\ \A c \in Callers : pc[c] = "idle"
        /\ connect(fail)
        /\ IF ConnectThrew(fail)
             THEN last' = Result("searchSimilar", arg, "error", <<>>)
             ELSE \E order \in RankedRows(CollectionRows(collection_name),
                                          query_embedding, top_k, nansFirst) :
                    last' = Result("searchSimilar", arg, "ok",
                      [k \in DOMAIN order |->
                         [item_id |-> embeddings[order[k]].item_id,
                          text |-> embeddings[order[k]].text,
                          similarity |-> cosine(embeddings[order[k]].embedding,
                                                query_embedding)]])
        /\ select
        /\ UNCHANGED <<pc, schemafull, server, now>>

searchSimilar == searchSimilarOf(Collections, Queries, TopKs)

NextEmbeddings ==
  \/ storeEmbeddingsOf(Collections, SearchBatches)
  \/ searchSimilar
  \/ initDatabase

\* the state after construction, on either platform
InitEmbeddings ==
  /\ connected = FALSE
  /\ signins = 0
  /\ pc = [c \in Callers |-> "idle"]
  /\ schemafull = FALSE
  /\ now = 0
  /\ models = <<>>
  /\ datasets = <<>>
  /\ predictions = <<>>
  /\ embeddings = <<>>
  /\ last = Result("none", [model_id |-> NONE], "ok", <<>>)
  /\ registry = [id \in ModelIds |-> <<>>]
  /\ ENABLE_PERSISTENCE = TRUE
  /\ LOG_PREDICTIONS = FALSE
  /\ nansFirst \in BOOLEAN

SpecEmbeddings == InitEmbeddings /\ [][NextEmbeddings]_vars

\* the searches of one collection, over records of both
NextRanking ==
  \/ storeEmbeddingsOf(Collections, SearchBatches)
  \/ searchSimilarOf({"docs"}, Queries, TopKs)

SpecRanking == InitEmbeddings /\ [][NextRanking]_vars

(* ------------------- the MCP server, tool by tool --------------------- *)

\* a handler without the guard: it goes on to the client, which connects
persistenceUnchecked(name, arg) ==
  /\ \A c \in Callers : pc[c] = "idle"
  /\ connect("none")
  /\ last' = Result(name, arg, "ok", <<>>)
  /\ UNCHANGED <<pc, schemafull, now, tables, server>>

\* `if (!dbClient || !ENABLE_PERSISTENCE) throw new Error('Persistence is not
\* enabled ...')`: the handler ends before it touches the client
persistenceDisabled(name, arg) ==
  /\ \A c \in Callers : pc[c] = "idle"
  /\ last' = ToolError(name, arg, NotEnabled)
  /\ UNCHANGED <<connected, signins, pc, schemafull, now, tables, server>>

list_model_versions(ids) ==
  IF ENABLE_PERSISTENCE THEN listModelVersionsOf(ids)
  ELSE \E model_id \in ids :
         persistenceDisabled("list_model_versions", [model_id |-> model_id])

store_training_dataset(ids, lists) ==
  IF ENABLE_PERSISTENCE THEN storeDatasetOf(ids, lists)
  ELSE \E dataset_id \in ids :
         persistenceDisabled("store_training_dataset", [dataset_id |-> dataset_id])

load_training_dataset(ids) ==
  IF ENABLE_PERSISTENCE THEN loadDatasetOf(ids)
  ELSE \E dataset_id \in ids :
         persistenceDisabled("load_training_dataset", [dataset_id |-> dataset_id])

get_model_metrics(ids, ranges) ==
  IF ENABLE_PERSISTENCE THEN getModelMetricsOf(ids, ranges)
  ELSE \E model_id \in ids :
         persistenceDisabled("get_model_metrics", [model_id |-> model_id])

get_confusion_matrix(ids, ranges) ==
  IF ENABLE_PERSISTENCE THEN getConfusionMatrixOf(ids, ranges)
  ELSE \E model_id \in ids :
         persistenceDisabled("get_confusion_matrix", [model_id |-> model_id])

detect_drift(ids, baselines, currents) ==
  IF ENABLE_PERSISTENCE THEN detectDriftOf(ids, baselines, currents)
  ELSE \E model_id \in ids :
         persistenceDisabled("detect_drift", [model_id |-> model_id])

store_embeddings(collections, batches) ==
  IF ENABLE_PERSISTENCE THEN storeEmbeddingsOf(collections, batches)
  ELSE \E collection_name \in collections :
         persistenceDisabled("store_embeddings", [collection_name |-> collection_name])

search_similar(collections, queries, topks) ==
  IF ENABLE_PERSISTENCE THEN searchSimilarOf(collections, queries, topks)
  ELSE \E collection_name \in collections :
         persistenceDisabled("search_similar", [collection_name |-> collection_name])

\* a test that leaves the environment's LOG_PREDICTIONS out
ShouldLogOnRequest(log_prediction) == log_prediction /\ ENABLE_PERSISTENCE

\* (log_prediction || LOG_PREDICTIONS) && dbClient && ENABLE_PERSISTENCE
ShouldLog(log_prediction) == (log_prediction \/ LOG_PREDICTIONS) /\ ENABLE_PERSISTENCE

\* predict: the top label of elm.predict is any of the model's categories;
\* the entry is logged when the call or the environment asks for it
predict(ids, logs, truths) ==
  \E fail \in ConnectOutcomes, model_id \in ids, log_prediction \in logs,
     ground_truth \in truths, confidence \in Confidences, latency_ms \in Latencies :
    LET arg == [model_id |-> model_id, log_prediction |-> log_prediction,
                ground_truth |-> ground_truth]
    IN  /\ \A c \in Callers : pc[c] = "idle"
        /\ IF registry[model_id] = <<>>
             THEN \* getModel throws: not found
                  /\ last' = ToolError("predict", arg, ModelNotFound)
                  /\ UNCHANGED <<connected, signins, predictions>>
             ELSE \E k \in DOMAIN registry[model_id][1].categories :
                    LET top == registry[model_id][1].categories[k]
                        rec == PredictionLog(model_id, top, ground_truth, confidence,
                                             latency_ms)
                        body == [category |-> top, confidence |-> confidence]
                    IN  IF ShouldLog(log_prediction)
                          THEN /\ logPredictionWrites(fail, rec)
                               /\ last' = IF LogPredictionThrows(fail, rec)
                                    THEN ToolError("predict", arg, StoreError)
                                    ELSE Result("predict", arg, "ok", <<body>>)
                          ELSE /\ last' = Result("predict", arg, "ok", <<body>>)
                               /\ UNCHANGED <<connected, signins, predictions>>
        /\ UNCHANGED <<pc, schemafull, now, server, models, datasets, embeddings>>

\* the tool whose handler makes a call of the client
ToolOf ==
  [listModelVersions |-> "list_model_versions", storeDataset |-> "store_training_dataset",
   loadDataset |-> "load_training_dataset", getModelMetrics |-> "get_model_metrics",
   getConfusionMatrix |-> "get_confusion_matrix", detectDrift |-> "detect_drift",
   storeEmbeddings |-> "store_embeddings", searchSimilar |-> "search_similar"]

\* the response the request handler returns for the call that completed last:
\* the catch block's for an error the client threw or a dataset it did not
\* find, the handler's own otherwise
Response ==
  IF last.op \in DOMAIN ToolOf
    THEN IF last.status = "error"
           THEN [isError |-> TRUE, tool |-> ToolOf[last.op], error |-> StoreError]
         ELSE IF last.status = "null"
           THEN [isError |-> TRUE, tool |-> ToolOf[last.op], error |-> NotInDatabase]
         ELSE [isError |-> FALSE, tool |-> NONE, error |-> NONE]
    ELSE IF last.status = "error"
           THEN [isError |-> TRUE, tool |-> last.val[1].tool, error |-> last.val[1].error]
           ELSE [isError |-> FALSE, tool |-> NONE, error |-> NONE]

\* the tool a completed call was a call of
CalledTool == IF last.op \in DOMAIN ToolOf THEN ToolOf[last.op] ELSE last.op

\* every tool of the server, one model, one dataset and one collection
NextServer ==
  \/ train_classifier({"m1"}, {"v1"}, {<<>>}, BOOLEAN)
  \/ predict({"m1"}, BOOLEAN, {NONE})
  \/ delete_model({"m1"})
  \/ store_model_persistent({"m1"}, {"v1"})
  \/ load_model_persistent({"m1"}, {NONE})
  \/ list_model_versions({"m1"})
  \/ store_training_dataset({"d1"}, {CHOOSE l \in ExampleLists : Len(l) = 1})
  \/ load_training_dataset({"d1"})
  \/ get_model_metrics({"m1"}, {NoRange})
  \/ get_confusion_matrix({"m1"}, {NoRange})
  \/ detect_drift({"m1"}, {<<0, 0>>}, {<<0, 0>>})
  \/ store_embeddings({"docs"}, {CHOOSE b \in ItemBatches : Len(b) = 1})
  \/ search_similar({"docs"}, {<<1, 0>>}, {1})
  \/ initDatabase

SpecServer == InitServer /\ [][NextServer]_vars

\* the config, categories and weights the server hands to storeModel for a
\* classifier trained with the default maxLen
ServerPayloads ==
  { [config |-> [maxLen |-> <<DefaultMaxLen>>], categories |-> TrainedCategories,
     weights |-> stringify([W |-> 7, encoderConfig |->
                              <<[maxLen |-> DefaultMaxLen, mode |-> "char"]>>])] }

\* loads of models and datasets, by the client and by the tool, among stores
NextLoads ==
  \/ storeModelOf({"m1"}, Versions, ServerPayloads)
  \/ loadModelOf(ModelIds, Versions \cup {NONE})
  \/ load_model_persistent({"m1"}, Versions \cup {NONE})
  \/ storeDatasetOf({"d1"}, {CHOOSE l \in ExampleLists : Len(l) = 1})
  \/ loadDatasetOf(DatasetIds)
  \/ initDatabase

SpecLoads == Init /\ [][NextLoads]_vars

\* the five reads over a store whose queries have rows to choose among: records
\* of one key, records of one instant, records of one similarity
NextReads ==
  \/ storeModelOf({"m1"}, {"v1"}, Payloads)
  \/ loadModelOf({"m1"}, {"v1", NONE})
  \/ listModelVersionsOf({"m1"})
  \/ storeDatasetOf({"d1"}, {l \in ExampleLists : Len(l) = 2})
  \/ loadDatasetOf({"d1"})
  \/ logPredictionOf({"m1"}, {"pos"}, {NONE})
  \/ getModelMetricsOf({"m1"}, {NoRange})
  \/ storeEmbeddingsOf({"docs"}, {b \in SearchBatches : b[1].item_id # "i3"})
  \/ searchSimilarOf({"docs"}, Queries, {1, 2})
  \/ Tick

SpecReads == InitEmbeddings /\ [][NextReads]_vars

(* ------------------ store and load calls, await by await -------------- *)

\* the operations whose calls are followed await by await
CallOps == {"storeModel", "loadModel"}

\* a caller inside operation op, parked at one of its awaits
OpAwait(op, await) == op \o ":" \o await

\* the operation a parked caller is in
OpOf(c) ==
  CHOOSE op \in CallOps :
    \E a \in Connecting \cup {"db.query", "closed"} : pc[c] = OpAwait(op, a)

\* whether the caller is parked inside the `await this.connect()` of an operation
InHandshake(c) == \E op \in CallOps, a \in Connecting : pc[c] = OpAwait(op, a)

\* whether the caller has issued db.signin in the handshake it is parked in
SignedIn(c) == \E op \in CallOps, a \in {"db.signin", "db.use"} : pc[c] = OpAwait(op, a)

\* each caller works on a model id of its own as far as there are ids
ModelOf(c) == IF c = 1 THEN "m1" ELSE "m2"

\* the arguments of caller c's call of op
CallArg(c, op) ==
  LET p == CHOOSE q \in Payloads : Len(q.weights) = 1
  IN  IF op = "storeModel"
        THEN [model_id |-> ModelOf(c), version |-> "v1", config |-> p.config,
              weights |-> p.weights, categories |-> p.categories]
        ELSE [model_id |-> ModelOf(c), version |-> "v1"]

\* the operation is called: `await this.connect()` returns at once on an
\* established connection and the query is issued, or issues db.connect(url). All
\* callers share the one handle this.db: a db.connect on a handle whose earlier
\* handshake is in flight either leaves that handshake alone or replaces its
\* socket, and then the requests in flight on the old socket fail
callOp(c, op) ==
  /\ pc[c] = "idle"
  /\ IF connected
       THEN /\ pc' = [pc EXCEPT ![c] = OpAwait(op, "db.query")]
            /\ UNCHANGED signins
       ELSE \E replaces \in BOOLEAN :
              /\ pc' = [d \in Callers |->
                          IF d = c THEN OpAwait(op, "db.connect")
                          ELSE IF replaces /\ InHandshake(d)
                            THEN OpAwait(OpOf(d), "closed")
                            ELSE pc[d]]
              /\ signins' = IF replaces
                              THEN signins - Cardinality({d \in Callers : SignedIn(d)})
                              ELSE signins
  /\ UNCHANGED <<connected, last, schemafull, server, now, tables>>

\* db.connect resolved: db.signin is issued
opConnectDone(c, op) ==
  /\ pc[c] = OpAwait(op, "db.connect")
  /\ pc' = [pc EXCEPT ![c] = OpAwait(op, "db.signin")]
  /\ signins' = signins + 1
  /\ UNCHANGED <<connected, last, schemafull, server, now, tables>>

\* db.signin resolved: db.use is issued
opSigninDone(c, op) ==
  /\ pc[c] = OpAwait(op, "db.signin")
  /\ pc' = [pc EXCEPT ![c] = OpAwait(op, "db.use")]
  /\ UNCHANGED <<connected, signins, last, schemafull, server, now, tables>>

\* db.use resolved: this.connected = true, connect() returns and the operation
\* issues its query
opUseDone(c, op) ==
  /\ pc[c] = OpAwait(op, "db.use")
  /\ connected' = TRUE
  /\ pc' = [pc EXCEPT ![c] = OpAwait(op, "db.query")]
  /\ UNCHANGED <<signins, last, schemafull, server, now, tables>>

\* the request in flight was rejected with its socket: connect() throws, and the
\* operation with it
opClosed(c, op) ==
  /\ pc[c] = OpAwait(op, "closed")
  /\ pc' = [pc EXCEPT ![c] = "idle"]
  /\ last' = Result(op, CallArg(c, op), "error", <<>>)
  /\ UNCHANGED <<connected, signins, schemafull, server, now, tables>>

\* db.create('models', ...) resolved or was refused: storeModel returns or throws
storeModelDone(c) ==
  LET arg == CallArg(c, "storeModel")
      rec == StoredModel(arg.model_id, arg.version, arg)
  IN  /\ pc[c] = OpAwait("storeModel", "db.query")
      /\ pc' = [pc EXCEPT ![c] = "idle"]
      /\ IF ModelsCreateRefused(rec)
           THEN /\ last' = Result("storeModel", arg, "error", <<>>)
                /\ UNCHANGED models
           ELSE /\ StoreRows < MaxRows
                /\ \E id \in ScanPlaces(models) : models' = InsertRow(models, Placed(rec, id))
                /\ last' = Result("storeModel", arg, "ok", <<>>)
      /\ UNCHANGED <<connected, signins, schemafull, server, now, datasets, predictions,
                     embeddings>>

\* db.query(...) of loadModel resolved: null, or the row's model
loadModelDone(c) ==
  LET arg == CallArg(c, "loadModel")
      rows == LoadModelRows(arg.model_id, arg.version)
  IN  /\ pc[c] = OpAwait("loadModel", "db.query")
      /\ pc' = [pc EXCEPT ![c] = "idle"]
      /\ IF rows = {}
           THEN last' = Result("loadModel", arg, "null", <<>>)
           ELSE \E i \in FirstScanned(models, rows) :
                  last' = Result("loadModel", arg, "ok", <<LoadedModel(models[i])>>)
      /\ UNCHANGED <<connected, signins, schemafull, server, now, tables>>

\* store and load calls of several callers, interleaved at their awaits, on a
\* store that answers every request and refuses none
NextCalls ==
  \E c \in Callers :
    \/ \E op \in CallOps :
         \/ callOp(c, op) \/ opConnectDone(c, op) \/ opSigninDone(c, op)
         \/ opUseDone(c, op) \/ opClosed(c, op)
    \/ storeModelDone(c)
    \/ loadModelDone(c)

SpecCalls == Init /\ [][NextCalls]_vars

(* ----------------------- the client, one call at a time --------------- *)

Next ==
  \/ storeModelOf({"m1"}, {"v1"}, {CHOOSE p \in Payloads : Len(p.weights) = 1})
  \/ loadModelOf({"m1"}, {"v1", NONE})
  \/ listModelVersionsOf({"m1"})
  \/ storeDatasetOf({"d1"}, {CHOOSE l \in ExampleLists : Len(l) = 1})
  \/ loadDatasetOf({"d1"})
  \/ logPredictionOf({"m1"}, {"pos"}, {NONE, "pos"})
  \/ getModelMetricsOf({"m1"}, {NoRange})
  \/ getConfusionMatrixOf({"m1"}, {NoRange})
  \/ detectDriftOf({"m1"}, {<<0, 0>>}, {<<MaxClock, MaxClock>>})
  \/ storeEmbeddingsOf({"docs"}, {CHOOSE b \in ItemBatches : Len(b) = 1})
  \/ searchSimilarOf({"docs"}, {<<1, 0>>}, {1})
  \/ disconnect
  \/ Tick
  \/ initDatabase

Spec == Init /\ [][Next]_vars

(* ================================ claims ============================== *)

\* the instant an ISO string written by toISOString denotes
InstantOf(ts) == ts.text[1] * 10 + ts.text[2]

\* C1: no two model records share the same (model_id, version): a storeModel for
\* a pair already in the store is refused and adds no record
C1_UniqueModelVersion ==
  \A i, j \in DOMAIN models :
    (models[i].model_id = models[j].model_id /\ models[i].version = models[j].version)
      => i = j

\* C2: loadModel(model_id) with no version returns null when the model_id has no
\* active record, and otherwise an active record of that model_id whose
\* created_at no other active record of the model_id exceeds
C2_LoadLatestActive ==
  (last.op = "loadModel" /\ last.status # "error" /\ last.arg.version = NONE) =>
    LET act == {i \in DOMAIN models : /\ models[i].model_id = last.arg.model_id
                                      /\ models[i].status = "active"}
    IN  IF act = {}
          THEN last.status = "null"
          ELSE /\ last.status = "ok"
               /\ \E i \in act :
                    /\ \A j \in act : InstantOf(models[j].created_at)
                                        <= InstantOf(models[i].created_at)
                    /\ last.val[1].version = models[i].version
                    /\ last.val[1].config = models[i].config
                    /\ last.val[1].categories = models[i].categories

\* C2 witness: a version-less load returned the newer of two versions of a model
\* that were stored at different instants
C2_Witness ==
  /\ last.op = "loadModel" /\ last.status = "ok" /\ last.arg.version = NONE
  /\ \E i, j \in DOMAIN models :
       /\ models[i].model_id = last.arg.model_id
       /\ models[j].model_id = last.arg.model_id
       /\ models[i].version # models[j].version
       /\ InstantOf(models[i].created_at) < InstantOf(models[j].created_at)
       /\ last.val[1].version = models[j].version

\* C3: a loadModel(model_id, version) that directly follows a successful
\* storeModel(model_id, version, config, weights, categories) returns that
\* config, those categories in that order and those weight bytes
C3_StoreLoadRoundTrip ==
  [][ ( /\ last.op = "storeModel" /\ last.status = "ok"
        /\ last'.op = "loadModel" /\ last'.status # "error"
        /\ last'.arg.model_id = last.arg.model_id
        /\ last'.arg.version = last.arg.version )
      => ( /\ last'.status = "ok"
           /\ last'.val[1].config = last.arg.config
           /\ last'.val[1].categories = last.arg.categories
           /\ last'.val[1].weights = last.arg.weights ) ]_vars

\* C4: callers never race through connect(): while one caller's connect /
\* signin / use sequence is in flight no other caller starts or runs one
C4_SingleConnectSequence ==
  Cardinality({c \in Callers : pc[c] \in Connecting}) <= 1

\* C5: between a successful connect and the next disconnect db.signin is called
\* once: a step that leaves the client connected issues one signin when it
\* established the connection and none when it found it established
C5_SigninOncePerConnection ==
  [][ connected' => signins' = signins + (IF connected THEN 0 ELSE 1) ]_vars

\* C5 witness: an operation other than the connecting one completed on an
\* established connection
C5_Witness ==
  /\ connected /\ signins = 1
  /\ models # <<>> /\ predictions # <<>>
  /\ last.op = "getConfusionMatrix" /\ last.status = "ok"

\* C6: a loadDataset(dataset_id) that directly follows a successful
\* storeDataset(dataset_id, examples) returns those examples, in that order,
\* and a size equal to their number
C6_DatasetRoundTrip ==
  [][ ( /\ last.op = "storeDataset" /\ last.status = "ok"
        /\ last'.op = "loadDataset" /\ last'.status # "error"
        /\ last'.arg.dataset_id = last.arg.dataset_id )
      => ( /\ last'.status = "ok"
           /\ last'.val[1].examples = last.arg.examples
           /\ last'.val[1].size = Len(last.arg.examples) ) ]_vars

\* C7: in every stored dataset record each example carries a text and a label
\* that are strings, whatever values storeDataset was given
C7_ExamplesAreStrings ==
  \A i \in DOMAIN datasets : \A k \in DOMAIN datasets[i].examples :
    /\ datasets[i].examples[k].text.t = "string"
    /\ datasets[i].examples[k].label.t = "string"

\* C8: every ledger entry has correct present exactly when its ground_truth is
\* present, then equal to the comparison of predicted_label with ground_truth;
\* and the entry a logPrediction call writes carries the ground_truth the call
\* was given
C8_CorrectIffGroundTruth ==
  /\ \A i \in DOMAIN predictions :
       /\ (predictions[i].correct # NONE) <=> (predictions[i].ground_truth # NONE)
       /\ predictions[i].correct # NONE =>
            ( (predictions[i].correct = "true")
                <=> (predictions[i].predicted_label = predictions[i].ground_truth) )
       /\ predictions[i].correct \in {"true", "false", NONE}
  /\ (last.op = "logPrediction" /\ last.status = "ok") =>
       /\ predictions # <<>>
       /\ predictions[Len(predictions)].ground_truth = last.arg.ground_truth
       /\ predictions[Len(predictions)].predicted_label = last.arg.predicted_label

\* C8 witness: the ledger holds an entry logged without ground_truth and one
\* logged with a ground_truth the prediction missed
C8_Witness ==
  /\ last.op = "logPrediction" /\ last.status = "ok"
  /\ \E i, j \in DOMAIN predictions :
       /\ predictions[i].ground_truth = NONE /\ predictions[i].correct = NONE
       /\ predictions[j].ground_truth # NONE /\ predictions[j].correct = "false"

\* C9: the ledger is append-only: every step keeps every entry, at its place
\* and unchanged
C9_LedgerAppendOnly ==
  [][ /\ Len(predictions) <= Len(predictions')
      /\ \A i \in DOMAIN predictions : predictions'[i] = predictions[i] ]_vars

\* C9 witness: operations ran after the ledger had received two entries
C9_Witness ==
  /\ Len(predictions) = 2
  /\ predictions[1] # predictions[2]
  /\ last.op = "detectDrift" /\ last.status = "ok"

\* C10: a step that completes getModelMetrics, getConfusionMatrix or detectDrift
\* leaves the model, dataset, prediction and embedding records as they were
C10_MetricsNoWrites ==
  [][ last'.op \in {"getModelMetrics", "getConfusionMatrix", "detectDrift"}
        => UNCHANGED tables ]_vars

\* C10 witness: a metrics operation completed on a store that holds a ledger
\* entry and another record
C10_Witness ==
  /\ last.op \in {"getModelMetrics", "getConfusionMatrix", "detectDrift"}
  /\ predictions # <<>>
  /\ models # <<>> \/ datasets # <<>> \/ embeddings # <<>>

\* C11: a getModelMetrics that reaches the store and matches no ledger entry
\* returns total_predictions 0, avg_confidence 0, avg_latency_ms 0, an empty
\* predictions_per_label and no accuracy
C11_MetricsOfNoEntries ==
  ( /\ last.op = "getModelMetrics" /\ connected
    /\ MatchingRows(last.arg.model_id, last.arg.range) = {} )
  => ( /\ last.status = "ok"
       /\ last.val = <<[total_predictions |-> 0, avg_confidence |-> 0,
                        avg_latency_ms |-> 0, predictions_per_label |-> {},
                        accuracy |-> NONE]>> )

\* C12: a getModelMetrics that reaches the store and matches entries with
\* ground_truth reports accuracy = (entries with correct = true) over (entries
\* with ground_truth), as the pair <<correct_count, total>>
C12_AccuracyOverGroundTruth ==
  LET rows == MatchingRows(last.arg.model_id, last.arg.range)
      truth == {i \in rows : predictions[i].ground_truth # NONE}
  IN  ( last.op = "getModelMetrics" /\ connected /\ truth # {} )
      => ( /\ last.status = "ok"
           /\ last.val[1].accuracy =
                <<Cardinality({i \in truth : predictions[i].correct = "true"}),
                  Cardinality(truth)>> )

\* the ledger entries of a model inside a time range that carry a ground_truth
EntriesWithTruth(model_id, range) ==
  {i \in DOMAIN predictions :
     /\ predictions[i].model_id = model_id
     /\ predictions[i].ground_truth # NONE
     /\ range # NoRange =>
          /\ range[1] <= InstantOf(predictions[i].timestamp)
          /\ InstantOf(predictions[i].timestamp) <= range[2]}

\* C13: the matrix getConfusionMatrix returns has, for every ground truth g and
\* predicted label p, the cell (g, p) with the number of matching entries that
\* have ground_truth g and predicted_label p when that number is positive, and
\* no cell otherwise; entries without ground_truth are in no cell
C13_ConfusionMatrixCounts ==
  (last.op = "getConfusionMatrix" /\ last.status = "ok") =>
    LET rows == EntriesWithTruth(last.arg.model_id, last.arg.range)
        n(g, p) == Cardinality({i \in rows : /\ predictions[i].ground_truth = g
                                             /\ predictions[i].predicted_label = p})
    IN  last.val[1].matrix =
          { [truth |-> g, predicted |-> p, count |-> n(g, p)] :
              <<g, p>> \in {gp \in (GroundTruths \ {NONE}) \X Labels :
                              n(gp[1], gp[2]) > 0} }

\* C13 witness: a matrix over a time range with one cell, of count 1, while the
\* model has a second entry, logged without ground_truth
C13_Witness ==
  /\ last.op = "getConfusionMatrix" /\ last.status = "ok"
  /\ last.arg.range # NoRange
  /\ \E c \in last.val[1].matrix : c.count = 1 /\ last.val[1].matrix = {c}
  /\ \E i \in DOMAIN predictions :
       /\ predictions[i].model_id = last.arg.model_id
       /\ predictions[i].ground_truth = NONE

\* C15: every created_at and timestamp in the store is a native datetime, none
\* a plain string
C15_NativeDatetimes ==
  /\ \A i \in DOMAIN models : models[i].created_at.type = "datetime"
  /\ \A i \in DOMAIN datasets : datasets[i].created_at.type = "datetime"
  /\ \A i \in DOMAIN predictions : predictions[i].timestamp.type = "datetime"
  /\ \A i \in DOMAIN embeddings : embeddings[i].created_at.type = "datetime"

\* whether vector a is strictly more similar to q than vector b is, by cosine:
\* dot(a,q) / |a| > dot(b,q) / |b|, compared through signed squares; never so
\* when one of the three is a zero vector
MoreSimilar(a, b, q) ==
  LET s(v) == (IF Dot(v, q) < 0 THEN -1 ELSE 1) * Dot(v, q) * Dot(v, q)
  IN  /\ Dot(a, a) # 0 /\ Dot(b, b) # 0 /\ Dot(q, q) # 0
      /\ s(a) * Dot(b, b) > s(b) * Dot(a, a)

\* the ways to read the last searchSimilar result as distinct records of the
\* collection it names, one per position
SearchOrders ==
  LET rows == {i \in DOMAIN embeddings :
                 embeddings[i].collection_name = last.arg.collection_name}
  IN  {order \in [DOMAIN last.val -> rows] :
         /\ \A k, l \in DOMAIN order : k # l => order[k] # order[l]
         /\ \A k \in DOMAIN order :
              /\ last.val[k].item_id = embeddings[order[k]].item_id
              /\ last.val[k].text = embeddings[order[k]].text}

C17_TiesInInsertionOrder ==
  (last.op = "searchSimilar" /\ last.status = "ok") =>
    LET rows == {i \in DOMAIN embeddings :
                   embeddings[i].collection_name = last.arg.collection_name}
        q == last.arg.query_embedding
        e(i) == embeddings[i].embedding
        Tied(i, j) == /\ Dot(e(i), e(i)) # 0 /\ Dot(e(j), e(j)) # 0 /\ Dot(q, q) # 0
                      /\ ~MoreSimilar(e(i), e(j), q) /\ ~MoreSimilar(e(j), e(i), q)
    IN  \E order \in SearchOrders :
          /\ \A k, l \in DOMAIN order :
               (k < l /\ Tied(order[k], order[l])) => order[k] < order[l]
          /\ \A j \in rows : (\A k \in DOMAIN order : order[k] # j) =>
               \A k \in DOMAIN order : Tied(j, order[k]) => order[k] < j

\* C18: a searchSimilar that reaches the store returns a result in which every
\* similarity is a number, 0 where the query or the record's embedding is the
\* zero vector
C18_ZeroVectorSimilarity ==
  (last.op = "searchSimilar" /\ connected) =>
    /\ last.status = "ok"
    /\ \A k \in DOMAIN last.val : last.val[k].similarity.kind = "number"
    /\ \E order \in SearchOrders : \A k \in DOMAIN order :
         ( \/ Dot(embeddings[order[k]].embedding, embeddings[order[k]].embedding) = 0
           \/ Dot(last.arg.query_embedding, last.arg.query_embedding) = 0 )
         => last.val[k].similarity.num = 0

\* C19: no two embedding records share the same (collection_name, item_id)
C19_UniqueEmbeddingIds ==
  \A i, j \in DOMAIN embeddings :
    ( /\ embeddings[i].collection_name = embeddings[j].collection_name
      /\ embeddings[i].item_id = embeddings[j].item_id ) => i = j

\* the number of ledger entries of a model with a predicted label, timed
\* inside a window; all of the model's entries in the window for label NONE
WindowCount(model_id, window, label) ==
  Cardinality({i \in DOMAIN predictions :
                 /\ predictions[i].model_id = model_id
                 /\ window[1] <= InstantOf(predictions[i].timestamp)
                 /\ InstantOf(predictions[i].timestamp) <= window[2]
                 /\ label # NONE => predictions[i].predicted_label = label})

\* whether the two windows of the last detectDrift call give every label the
\* same share of their entries
SameDistributions ==
  LET m == last.arg.model_id
      b == last.arg.baseline_window
      c == last.arg.current_window
  IN  /\ (WindowCount(m, b, NONE) = 0) <=> (WindowCount(m, c, NONE) = 0)
      /\ \A l \in Labels :
           WindowCount(m, b, l) * WindowCount(m, c, NONE)
             = WindowCount(m, c, l) * WindowCount(m, b, NONE)

\* C20: a detectDrift over two windows with identical predicted_label
\* distributions returns drift_score 0 and drift_detected false
C20_NoDriftOnSameDistributions ==
  (last.op = "detectDrift" /\ last.status = "ok" /\ SameDistributions) =>
    /\ last.val[1].drift_score = 0
    /\ last.val[1].drift_detected = FALSE

\* C20 witness: a detectDrift over two different windows, each with entries,
\* whose distributions are identical
C20_Witness ==
  /\ last.op = "detectDrift" /\ last.status = "ok" /\ SameDistributions
  /\ last.arg.baseline_window # last.arg.current_window
  /\ WindowCount(last.arg.model_id, last.arg.baseline_window, NONE) > 0
  /\ WindowCount(last.arg.model_id, last.arg.current_window, NONE) > 0

\* the weights payload of a model record, as load_model_persistent reads it
WeightsPayload(m) == parse(fromBase64(m.weights))

\* C14: every model record in the store carries, inside its serialized
\* weights payload, the encoder's reconstruction parameters (mode and max
\* length)
C14_WeightsCarryEncoderConfig ==
  \A i \in DOMAIN models :
    /\ WeightsPayload(models[i]).encoderConfig # <<>>
    /\ WeightsPayload(models[i]).encoderConfig[1].mode \in {"char", "token"}
    /\ WeightsPayload(models[i]).encoderConfig[1].maxLen \in Nat

\* the predicted labels a window of a model's ledger holds
ObservedLabels(model_id, window) ==
  {l \in Labels : WindowCount(model_id, window, l) > 0}

\* C21: a detectDrift over two windows whose observed label sets are
\* disjoint (some label being observed) returns a drift_score above the 0.1
\* threshold and drift_detected true
C21_DisjointLabelsDrift ==
  LET m == last.arg.model_id
      b == ObservedLabels(m, last.arg.baseline_window)
      c == ObservedLabels(m, last.arg.current_window)
  IN  ( /\ last.op = "detectDrift" /\ last.status = "ok"
        /\ b \cap c = {} /\ b \cup c # {} )
      => /\ last.val[1].drift_score > DriftThreshold
         /\ last.val[1].drift_detected = TRUE

\* count(label) / count(entries in window), for the labels the window holds
WindowDistribution(model_id, window) ==
  {[label |-> l, share |-> <<WindowCount(model_id, window, l),
                             WindowCount(model_id, window, NONE)>>] :
     l \in ObservedLabels(model_id, window)}

RECURSIVE SmoothedBaselineScore(_, _)
\* the score of an empty baseline window against a distribution: every label
\* of the baseline at the mass 0.001
SmoothedBaselineScore(labels, dist) ==
  IF labels = {} THEN 0
  ELSE LET l == CHOOSE x \in labels : TRUE
       IN  DriftTerm(<<1, 1000>>, (CHOOSE e \in dist : e.label = l).share)
             + SmoothedBaselineScore(labels \ {l}, dist)

RECURSIVE SmoothedCurrentScore(_, _)
\* the score of a distribution against an empty current window
SmoothedCurrentScore(labels, dist) ==
  IF labels = {} THEN 0
  ELSE LET l == CHOOSE x \in labels : TRUE
       IN  DriftTerm((CHOOSE e \in dist : e.label = l).share, <<1, 1000>>)
             + SmoothedCurrentScore(labels \ {l}, dist)

\* C22: detectDrift returns a result whenever it connected; each window's
\* distribution is count(label) / count(entries in window), empty for a
\* window with no entries, whose labels then take the smoothed mass 0.001
C22_EmptyWindowSmoothed ==
  LET m == last.arg.model_id
      b == last.arg.baseline_window
      c == last.arg.current_window
  IN  last.op = "detectDrift" =>
        /\ connected => last.status = "ok"
        /\ last.status = "ok" =>
             /\ last.val[1].baseline_distribution = WindowDistribution(m, b)
             /\ last.val[1].current_distribution = WindowDistribution(m, c)
             /\ WindowCount(m, b, NONE) = 0 =>
                  /\ last.val[1].baseline_distribution = {}
                  /\ last.val[1].drift_score =
                       SmoothedBaselineScore(ObservedLabels(m, c), WindowDistribution(m, c))
             /\ WindowCount(m, c, NONE) = 0 =>
                  /\ last.val[1].current_distribution = {}
                  /\ last.val[1].drift_score =
                       SmoothedCurrentScore(ObservedLabels(m, b), WindowDistribution(m, b))

\* C22 witness: a detectDrift that returned a result for an empty baseline
\* window and a current window with entries
C22_Witness ==
  /\ last.op = "detectDrift" /\ last.status = "ok"
  /\ WindowCount(last.arg.model_id, last.arg.baseline_window, NONE) = 0
  /\ WindowCount(last.arg.model_id, last.arg.current_window, NONE) > 0
  /\ last.val[1].drift_score # 0

\* the versions persisted for a model id
PersistedVersions(model_id) ==
  {models[i].version : i \in {j \in DOMAIN models : models[j].model_id = model_id}}

\* C27: listModelVersions returns exactly one summary for every persisted
\* version of the model id, none besides, newest first
C27_OneSummaryPerVersion ==
  (last.op = "listModelVersions" /\ last.status = "ok") =>
    /\ \A v \in PersistedVersions(last.arg.model_id) :
         Cardinality({k \in DOMAIN last.val : last.val[k].version = v}) = 1
    /\ \A k \in DOMAIN last.val :
         last.val[k].version \in PersistedVersions(last.arg.model_id)
    /\ \A k, l \in DOMAIN last.val :
         k < l => InstantOf(last.val[l].created_at) <= InstantOf(last.val[k].created_at)

\* whether the tool call that completed last failed: its handler threw, or it
\* answers success: false
ToolCallFailed ==
  \/ last.status \in {"error", "null"}
  \/ last.op = "delete_model" /\ last.val[1].success = FALSE

\* C23: a tool call that fails returns an error response (isError = true)
\* that carries the name of the tool and a reason
C23_FailuresAreErrorResponses ==
  ToolCallFailed =>
    /\ Response.isError
    /\ Response.tool = CalledTool
    /\ Response.error # NONE

\* the tools C24 names, by the name a completed call carries
FailClosedTools ==
  {"train_classifier", "load_model_persistent", "store_model_persistent",
   "store_training_dataset", "store_embeddings", "predict"}

\* C24: a call of train_classifier, load_model_persistent,
\* store_model_persistent, store_training_dataset, store_embeddings or
\* predict that returns an error leaves the in-memory registry and the stored
\* records as they were before the call
C24_FailClosed ==
  [][ (CalledTool' \in FailClosedTools /\ Response'.isError)
        => (registry' = registry /\ tables' = tables) ]_vars

\* the persistence, monitoring and embedding tools
PersistenceTools ==
  {"store_model_persistent", "load_model_persistent", "list_model_versions",
   "store_training_dataset", "load_training_dataset", "get_model_metrics",
   "get_confusion_matrix", "detect_drift", "store_embeddings", "search_similar"}

\* C25: when ENABLE_PERSISTENCE is not 'true', every persistence, monitoring
\* and embedding tool returns the error 'Persistence is not enabled', and no
\* tool ever connects to the store or writes a record
C25_NothingWithoutPersistence ==
  ~ENABLE_PERSISTENCE =>
    /\ ~connected /\ signins = 0
    /\ models = <<>> /\ datasets = <<>> /\ predictions = <<>> /\ embeddings = <<>>
    /\ CalledTool \in PersistenceTools =>
         /\ Response.isError
         /\ Response.error = NotEnabled

\* C25 witness: with persistence off, a prediction with log_prediction = true
\* succeeded on a model trained in memory
C25_Witness ==
  /\ ~ENABLE_PERSISTENCE
  /\ registry["m1"] # <<>>
  /\ last.op = "predict" /\ last.arg.log_prediction /\ last.status = "ok"

\* whether the store holds no active record for a load's model id and, when
\* a version is requested, that version
NoSuchModel(model_id, version) ==
  ~\E i \in DOMAIN models :
     /\ models[i].model_id = model_id
     /\ models[i].status = "active"
     /\ version # NONE => models[i].version = version

\* C26: loadModel returns null, and load_model_persistent the error 'not
\* found in database', when the model id has no record, no record of the
\* requested version, or no active record; loadDataset returns null for a
\* dataset id without a record
C26_NotFound ==
  /\ ( /\ last.op = "loadModel" /\ last.status # "error"
       /\ NoSuchModel(last.arg.model_id, last.arg.version) )
     => last.status = "null"
  /\ ( /\ last.op = "load_model_persistent" /\ connected
       /\ NoSuchModel(last.arg.model_id, last.arg.version) )
     => (Response.isError /\ Response.error = NotInDatabase)
  /\ ( /\ last.op = "loadDataset" /\ last.status # "error"
       /\ ~\E i \in DOMAIN datasets : datasets[i].dataset_id = last.arg.dataset_id )
     => last.status = "null"

\* C28: a dataset is created once: there is at most one dataset record per
\* dataset_id, and a storeDataset of an id that has a record fails
C28_DatasetCreatedOnce ==
  /\ \A i, j \in DOMAIN datasets :
       datasets[i].dataset_id = datasets[j].dataset_id => i = j
  /\ ( /\ last.op = "storeDataset"
       /\ \E i, j \in DOMAIN datasets :
            i < j /\ datasets[i].dataset_id = last.arg.dataset_id
                  /\ datasets[j].dataset_id = last.arg.dataset_id )
     => last.status = "error"

\* what loadModel(model_id, version) can return from the records in the store
LoadResults(model_id, version) ==
  {LoadedModel(models[i]) : i \in FirstScanned(models, LoadModelRows(model_id, version))}

\* C29: no step changes or deletes an existing model record, and storing a
\* record of another version leaves what loadModel(model_id, version) returns
\* for a stored version as it was
C29_ModelRecordsImmutable ==
  [][ /\ \A i \in DOMAIN models :
           i \in DOMAIN models' /\ models'[i] = models[i]
      /\ \A model_id \in ModelIds, version \in Versions :
           ( /\ LoadResults(model_id, version) # {}
             /\ Len(models') = Len(models) + 1
             /\ ~ ( /\ models'[Len(models')].model_id = model_id
                    /\ models'[Len(models')].version = version ) )
           => LoadResults(model_id, version)' = LoadResults(model_id, version) ]_vars

\* the client's operations that only read
ReadOps == {"loadModel", "loadDataset", "listModelVersions", "getModelMetrics",
            "searchSimilar"}

C31_OperationsComplete ==
  \A c \in Callers : (pc[c] # "idle") ~> (pc[c] = "idle")

\* C32: calls for different ids do not interfere: on a store that answers
\* every request, a storeModel or loadModel call that runs while calls for other
\* ids are in flight returns what it returns when it runs alone: storeModel
\* succeeds and its record is in the store, loadModel returns the record of its
\* id, or null when there is none
C32_NoInterference ==
  /\ last.op = "storeModel" =>
       /\ last.status = "ok"
       /\ \E i \in DOMAIN models : /\ models[i].model_id = last.arg.model_id
                                   /\ models[i].version = last.arg.version
  /\ last.op = "loadModel" =>
       LET rows == {i \in DOMAIN models : /\ models[i].model_id = last.arg.model_id
                                          /\ models[i].version = last.arg.version}
       IN  IF rows = {} THEN last.status = "null"
           ELSE /\ last.status = "ok"
                /\ \E i \in rows : last.val[1].config = models[i].config

(* ---------------- a persisted model, removed and reloaded --------------- *)

\* train with persist, delete from memory, load back, predict: one model id,
\* no logging
NextReload ==
  \/ train_classifier({"m1"}, {NONE}, MaxLens, {TRUE})
  \/ delete_model({"m1"})
  \/ load_model_persistent({"m1"}, {NONE})
  \/ predict({"m1"}, {FALSE}, {NONE})
  \/ Tick

SpecReload == InitServer /\ [][NextReload]_vars

\* the classifier train_classifier persisted as record m, read off the record:
\* its categories, and in the weights the trained W, then the encoder's maxLen
\* and mode
PersistedEntry(m) ==
  LET bytes == fromBase64(m.weights)
  IN  [categories |-> m.categories, maxLen |-> bytes[2],
       encoder |-> [maxLen |-> bytes[2], mode |-> Modes[bytes[3]]], W |-> bytes[1]]

C34_RegisteredIdsUnique ==
  [][/\ \A id \in ModelIds :
          /\ Len(registry'[id]) <= 1
          /\ registry[id] # <<>> =>
               \/ registry'[id] = registry[id]
               \/ registry'[id] = <<>> /\ last'.op = "delete_model"
     /\ (/\ last'.op = "train_classifier" /\ last' # last
         /\ registry[last'.arg.model_id] # <<>>)
          => /\ last'.status = "error"
             /\ last'.val[1].error = AlreadyExists
             /\ UNCHANGED <<registry, models>>]_vars

\* a train_classifier with the default maxLen was refused for the id of a
\* classifier of maxLen 50, which is still the one registered
C34_Witness ==
  /\ last.op = "train_classifier" /\ last.status = "error"
  /\ last.val[1].error = AlreadyExists
  /\ last.arg.maxLen = <<>>
  /\ registry["m1"] # <<>>
  /\ registry["m1"][1].maxLen = 50

\* C35: with persistence enabled, a predict call that succeeds appends exactly
\* one entry to the ledger when log_prediction is true or LOG_PREDICTIONS is
\* set, and none otherwise; the entry carries the model_id of the call and the
\* category and confidence of the prediction the response ranks first
C35_PredictLogsOnce ==
  [][(/\ last'.op = "predict" /\ last'.status = "ok"
      /\ last' # last \/ predictions' # predictions
      /\ ENABLE_PERSISTENCE)
       => IF last'.arg.log_prediction \/ LOG_PREDICTIONS
            THEN /\ Len(predictions') = Len(predictions) + 1
                 /\ SubSeq(predictions', 1, Len(predictions)) = predictions
                 /\ LET entry == predictions'[Len(predictions')]
                    IN  /\ entry.model_id = last'.arg.model_id
                        /\ entry.predicted_label = last'.val[1].category
                        /\ entry.confidence = last'.val[1].confidence
            ELSE predictions' = predictions]_vars

\* LOG_PREDICTIONS is set, a predict that did not ask for logging succeeded and
\* its prediction is the ledger's entry
C35_Witness ==
  /\ last.op = "predict" /\ last.status = "ok"
  /\ ENABLE_PERSISTENCE /\ LOG_PREDICTIONS /\ ~last.arg.log_prediction
  /\ Len(predictions) = 1
  /\ predictions[1].predicted_label = last.val[1].category
  /\ predictions[1].predicted_label = "pos"

NextOutage ==
  \/ storeModelOf({"m1"}, {"v1"}, {CHOOSE p \in Payloads : Len(p.weights) = 1})
  \/ loadModelOf({"m1"}, {"v1", NONE})
  \/ logPredictionOf({"m1"}, Labels, {NONE})
  \/ getConfusionMatrixOf({"m1"}, {NoRange})
  \/ disconnect

SpecOutage == Init /\ [][NextOutage]_vars

\* C37: when a step of connect() fails, the operation ends in an error, the
\* connected flag stays false, no session is left signed in and no query of the
\* operation reaches a table; nothing is retried, and the operation after a
\* failed one (a disconnect apart, which connects nothing) runs the connect
\* sequence again: it signs in once, or fails in its turn. On this store an operation ends in an error only when a step of
\* its connect() failed
C37_ConnectFailureSurfaces ==
  [][/\ last'.status = "error"
          => /\ ~connected /\ ~connected'
             /\ signins' = signins
             /\ UNCHANGED tables
     /\ (last.status = "error" /\ last'.status # "error" /\ last'.op # "disconnect")
          => /\ connected'
             /\ signins' = signins + 1]_vars

\* a loadModel after a disconnect failed in connect(): the record it asked for
\* is in the store and it got the error, not the record
C37_Witness ==
  /\ last.op = "loadModel" /\ last.status = "error"
  /\ ~connected /\ signins = 0
  /\ \E i \in DOMAIN models : /\ models[i].model_id = last.arg.model_id
                              /\ models[i].version = last.arg.version

(* --------------------- the ledger read through windows ----------------- *)

\* the ledger of one model and its three readings over every time window
NextWindows ==
  \/ logPredictionOf({"m1"}, {"pos"}, {NONE, "pos"})
  \/ getModelMetricsOf({"m1"}, Windows)
  \/ getConfusionMatrixOf({"m1"}, Windows)
  \/ detectDriftOf({"m1"}, Windows, Windows)
  \/ Tick

SpecWindows == Init /\ [][NextWindows]_vars

RECURSIVE SumOfCounts(_)
\* the sum of the counts of a set of matrix cells
SumOfCounts(cells) ==
  IF cells = {} THEN 0
  ELSE LET c == CHOOSE x \in cells : TRUE
       IN  c.count + SumOfCounts(cells \ {c})

\* whether a distribution detectDrift returned is the one of the entries of the
\* model stamped start <= timestamp <= end
ClosedWindowDistribution(dist, model_id, window) ==
  /\ (dist = {}) <=> (WindowCount(model_id, window, NONE) = 0)
  /\ \A d \in dist : d.share = <<WindowCount(model_id, window, d.label),
                                 WindowCount(model_id, window, NONE)>>

\* what getConfusionMatrix and detectDrift return counts the entries stamped
\* start <= timestamp <= end, both ends included
ClosedWindowsOfMatrixAndDrift ==
  /\ (last.op = "getConfusionMatrix" /\ last.status = "ok") =>
       SumOfCounts(last.val[1].matrix)
         = Cardinality(EntriesWithTruth(last.arg.model_id, last.arg.range))
  /\ (last.op = "detectDrift" /\ last.status = "ok") =>
       /\ ClosedWindowDistribution(last.val[1].baseline_distribution,
                                   last.arg.model_id, last.arg.baseline_window)
       /\ ClosedWindowDistribution(last.val[1].current_distribution,
                                   last.arg.model_id, last.arg.current_window)

\* C38: time windows are closed at both ends: the queries of getModelMetrics,
\* getConfusionMatrix and detectDrift take the entries of the model stamped
\* start <= timestamp <= end, so an entry stamped where one window ends and the
\* next starts is counted in both. getConfusionMatrix and detectDrift return
\* the counts of those entries; getModelMetrics returns no result, and which
\* of its two errors it ends in tells whether its query matched an entry: the
\* store's refusal of math::mean exactly when the closed window holds one
C38_ClosedWindows ==
  /\ ClosedWindowsOfMatrixAndDrift
  /\ (last.op = "getModelMetrics" /\ last.val # <<>>) =>
       (last.val[1].error = MeanOfScalar
          <=> WindowCount(last.arg.model_id, last.arg.range, NONE) > 0)

\* a detectDrift whose baseline window ends where its current window starts
\* counted the entry stamped at that instant in both
C38_BoundaryInBoth ==
  /\ last.op = "detectDrift" /\ last.status = "ok"
  /\ last.arg.baseline_window = <<0, 1>> /\ last.arg.current_window = <<1, 1>>
  /\ \E i \in DOMAIN predictions : InstantOf(predictions[i].timestamp) = 1
  /\ \E i \in DOMAIN predictions : InstantOf(predictions[i].timestamp) = 0
  /\ \E d \in last.val[1].baseline_distribution : d.share[2] = 2
  /\ \E d \in last.val[1].current_distribution : d.share[2] = 1

(* ---------------------- one ledger, several models ---------------------- *)

\* entries logged for two models, and the three readings of the first
NextTenants ==
  \/ logPredictionOf(ModelIds, Labels, {NONE, "pos"})
  \/ getModelMetricsOf({"m1"}, {NoRange, <<0, 0>>})
  \/ getConfusionMatrixOf({"m1"}, {NoRange})
  \/ detectDriftOf({"m1"}, {<<0, 0>>}, Windows)
  \/ Tick

SpecTenants == Init /\ [][NextTenants]_vars

\* what getModelMetrics, getConfusionMatrix and detectDrift give for a model
\* on a reachable store, over every time range and window: which of its
\* errors getModelMetrics ends in, the matrix, and the distribution of the
\* window, from which detectDrift computes its score and its flag
ReadingsOf(model_id) ==
  [metrics |-> [r \in Windows \cup {NoRange} |->
                  StatsQueryRefused(MatchingRows(model_id, r))],
   matrix  |-> [r \in Windows \cup {NoRange} |->
                  ConfusionCells(TruthRows(model_id, r))],
   drift   |-> [w \in Windows |-> Distribution(MatchingRows(model_id, w))]]

\* C39: metrics are isolated per model: a step that appends a ledger entry
\* for one model id leaves what getModelMetrics, getConfusionMatrix and
\* detectDrift give for every other model id as it was, over every time range
C39_MetricsIsolatedPerModel ==
  [][\A A \in ModelIds :
       (/\ Len(predictions') = Len(predictions) + 1
        /\ SubSeq(predictions', 1, Len(predictions)) = predictions
        /\ predictions'[Len(predictions')].model_id # A)
         => ReadingsOf(A)' = ReadingsOf(A)]_vars

\* an entry with ground truth was logged for m2 at the instant of an entry of
\* m1, in a ledger m1's readings are not empty over
C39_Witness ==
  /\ last.op = "logPrediction" /\ last.status = "ok"
  /\ last.arg.model_id = "m2"
  /\ Len(predictions) = 2
  /\ predictions[1].model_id = "m1" /\ predictions[2].model_id = "m2"
  /\ predictions[1].timestamp = predictions[2].timestamp
  /\ predictions[2].ground_truth # NONE
  /\ ReadingsOf("m1").matrix[NoRange] # {}

\* the matrix getConfusionMatrix returns has as many entries in its cells as
\* the ledger holds with ground_truth for the model and range, and as many on
\* its diagonal as the ledger holds with correct = true
MatrixAgreesWithLedger ==
  (last.op = "getConfusionMatrix" /\ last.status = "ok") =>
    LET truth == EntriesWithTruth(last.arg.model_id, last.arg.range)
        cells == last.val[1].matrix
    IN  /\ SumOfCounts(cells) = Cardinality(truth)
        /\ SumOfCounts({c \in cells : c.truth = c.predicted})
             = Cardinality({i \in truth : predictions[i].correct = "true"})

\* C40: over an unchanged ledger the confusion matrix and the metrics of a
\* model and time range agree: getModelMetrics, called on a reachable store,
\* returns an accuracy whose denominator is the sum of all cells of the matrix
\* and whose numerator is the sum of its diagonal cells, and a
\* predictions_per_label that sums to total_predictions
C40_MatrixAgreesWithMetrics ==
  /\ MatrixAgreesWithLedger
  /\ (last.op = "getModelMetrics" /\ connected) =>
       LET cells == ConfusionCells(TruthRows(last.arg.model_id, last.arg.range))
       IN  /\ last.status = "ok"
           /\ cells # {} =>
                last.val[1].accuracy =
                  <<SumOfCounts({c \in cells : c.truth = c.predicted}), SumOfCounts(cells)>>
           /\ SumOfCounts(last.val[1].predictions_per_label)
                = last.val[1].total_predictions

====
